---------------------------- MODULE Spec2Model ----------------------------
(***************************************************************************)
(* Verification model of the CODY solver core:                             *)
(*   - the CG driver of legion-hpcg (explicit-spmd/CG.hpp), and            *)
(*   - the symmetric Gauss-Seidel smoother of lgncg (src/comp-symgs.h).    *)
(*                                                                         *)
(* floatType values are modelled as exact rationals extended with the IEEE *)
(* special values NaN, +Inf and -Inf (rounding and the sign of zero are    *)
(* not modelled).  The result of a square root is kept in the exact form   *)
(* sqrt(n/d).                                                              *)
(***************************************************************************)
EXTENDS Integers, Sequences, FiniteSets, TLC

(***************************************************************************)
(* Bounds of the model.                                                    *)
(***************************************************************************)
\* largest maxIter handed to CG
MaxIter == 3
\* largest reading the timer reaches during one call
MaxClock == 1
\* localNumberOfRows of the problem CG is called on
nrow == 2
\* rows of each of the two sub-grids of the matrix symgs is called on
MaxLocalRows == 2
\* slots of one row of that matrix (the size of the stencil)
SNCols == 3

(***************************************************************************)
(* floatType arithmetic.                                                   *)
(***************************************************************************)
Abs(i) == IF i < 0 THEN -i ELSE i

RECURSIVE Gcd(_, _)
Gcd(a, b) == IF b = 0 THEN a ELSE Gcd(b, a % b)

\* the finite value n/d (d # 0), in lowest terms with a positive denominator
Rat(n, d) ==
    LET g == Gcd(Abs(n), Abs(d))
        s == IF d < 0 THEN -1 ELSE 1
    IN  [k |-> "fin", n |-> (s * n) \div g, d |-> Abs(d) \div g, rt |-> FALSE]

\* the finite value sqrt(n/d), n/d >= 0
Surd(n, d) == [Rat(n, d) EXCEPT !.rt = TRUE]

NaN  == [k |-> "nan",  n |-> 0, d |-> 1, rt |-> FALSE]
PInf == [k |-> "pinf", n |-> 0, d |-> 1, rt |-> FALSE]
NInf == [k |-> "ninf", n |-> 0, d |-> 1, rt |-> FALSE]
\* a default-constructed Future: it holds no value
NoFuture == [k |-> "empty", n |-> 0, d |-> 1, rt |-> FALSE]

Zero == Rat(0, 1)
One  == Rat(1, 1)

IsFin(a) == a.k = "fin"
IsInf(a) == a.k \in {"pinf", "ninf"}
\* a value no arithmetic is defined on: NaN, or a Future without a value
IsBad(a) == a.k \in {"nan", "empty"}
Bad(a, b) == IF a.k = "empty" \/ b.k = "empty" THEN NoFuture ELSE NaN

Sign(a) ==
    CASE a.k = "pinf" -> 1
      [] a.k = "ninf" -> -1
      [] a.k = "fin"  -> (IF a.n > 0 THEN 1 ELSE IF a.n < 0 THEN -1 ELSE 0)
      [] OTHER        -> 0

InfOf(s) == IF s < 0 THEN NInf ELSE PInf

FNeg(a) ==
    CASE a.k = "pinf" -> NInf
      [] a.k = "ninf" -> PInf
      [] a.k = "fin"  -> [a EXCEPT !.n = -a.n]
      [] OTHER        -> a

FAdd(a, b) ==
    IF IsBad(a) \/ IsBad(b) THEN Bad(a, b)
    ELSE IF IsInf(a) THEN (IF IsInf(b) /\ b.k # a.k THEN NaN ELSE a)
    ELSE IF IsInf(b) THEN b
    ELSE LET g == Gcd(a.d, b.d)
         IN  Rat(a.n * (b.d \div g) + b.n * (a.d \div g), (a.d \div g) * b.d)

FMul(a, b) ==
    IF IsBad(a) \/ IsBad(b) THEN Bad(a, b)
    ELSE IF IsInf(a) \/ IsInf(b)
         THEN (IF Sign(a) * Sign(b) = 0 THEN NaN ELSE InfOf(Sign(a) * Sign(b)))
    ELSE LET g == Gcd(Abs(a.n), b.d)
             h == Gcd(Abs(b.n), a.d)
         IN  Rat((a.n \div g) * (b.n \div h), (a.d \div h) * (b.d \div g))

\* a / b; two square roots divide to the square root of the quotient
FDiv(a, b) ==
    IF IsBad(a) \/ IsBad(b) THEN Bad(a, b)
    ELSE IF IsInf(a) THEN (IF IsInf(b) THEN NaN
                           ELSE InfOf(Sign(a) * (IF Sign(b) < 0 THEN -1 ELSE 1)))
    ELSE IF IsInf(b) THEN Zero
    ELSE IF b.n = 0 THEN (IF a.n = 0 THEN NaN ELSE InfOf(Sign(a)))
    ELSE LET g == Gcd(Abs(a.n), Abs(b.n))
             h == Gcd(a.d, b.d)
         IN  [Rat((a.n \div g) * (b.d \div h), (a.d \div h) * (b.n \div g))
                EXCEPT !.rt = a.rt]

FSqrt(a) ==
    CASE a.k = "pinf" -> PInf
      [] a.k = "ninf" -> NaN
      [] a.k = "fin"  -> (IF a.n < 0 THEN NaN ELSE Surd(a.n, a.d))
      [] OTHER        -> a

\* a > t, the comparison of the loop condition and of the residual kernel: a
\* is a quotient of two norms (a square root, an infinity or NaN) or a
\* difference, and t a rational, an infinity or NaN.  Every comparison with
\* NaN is false.
FGreater(a, t) ==
    CASE IsBad(a) \/ IsBad(t) -> FALSE
      [] t.k = "pinf" -> FALSE
      [] t.k = "ninf" -> a.k # "ninf"
      [] a.k = "pinf" -> TRUE
      [] a.k = "ninf" -> FALSE
      [] a.rt         -> (t.n < 0) \/ (a.n * t.d * t.d > t.n * t.n * a.d)
      [] OTHER        -> a.n * t.d > t.n * a.d

FLessEq(a, t) ==
    CASE IsBad(a)     -> FALSE
      [] a.k = "pinf" -> FALSE
      [] a.k = "ninf" -> TRUE
      [] a.rt         -> (t.n >= 0) /\ (a.n * t.d * t.d <= t.n * t.n * a.d)
      [] OTHER        -> a.n * t.d <= t.n * a.d

(***************************************************************************)
(* Vectors and the sparse matrix.  A vector is a sequence of floatType; a  *)
(* matrix is its rows of packed (column, value) pairs with the cache of    *)
(* its diagonal.                                                           *)
(***************************************************************************)

RECURSIVE FSum(_)
FSum(q) == IF q = <<>> THEN Zero ELSE FAdd(FSum(SubSeq(q, 1, Len(q) - 1)), q[Len(q)])

Vec(t) == [i \in 1..Len(t) |-> Rat(t[i], 1)]

Packed(M) ==
    [rows |-> [i \in 1..Len(M) |->
                 SelectSeq([j \in 1..Len(M[i]) |-> [col |-> j, val |-> Rat(M[i][j], 1)]],
                           LAMBDA e : e.val.n # 0)],
     diag |-> [i \in 1..Len(M) |-> Rat(M[i][i], 1)]]

CopyVector(src) == src

\* w[i] = alpha*x[i] + beta*y[i] for the first n elements of w
ComputeWAXPBY(n, alpha, x, beta, y, w) ==
    [i \in 1..Len(w) |->
        IF i <= n THEN FAdd(FMul(alpha, x[i]), FMul(beta, y[i])) ELSE w[i]]

\* the sum of x[i]*y[i] over the first n elements
ComputeDotProduct(n, x, y) == FSum([i \in 1..n |-> FMul(x[i], y[i])])

\* y[row] = sum over the stored nonzeros of val * x[col]
ComputeSPMV(A, x) ==
    [i \in 1..Len(A.rows) |->
        FSum([j \in 1..Len(A.rows[i]) |-> FMul(A.rows[i][j].val, x[A.rows[i][j].col])])]

\* the arithmetic chained onto deferred scalars
ComputeFuture(f1, op, f2) ==
    CASE op = "FMO_SQRT" -> FSqrt(f1)
      [] op = "FMO_DIV"  -> FDiv(f1, f2)

\* one Gauss-Seidel row update: x[i] = (r[i] - sum_{j # i} A[i][j]*x[j]) / A[i][i]
GSRow(A, r, x, i) ==
    LET off == SelectSeq(A.rows[i], LAMBDA e : e.col # i)
        s   == FSum([j \in 1..Len(off) |-> FMul(off[j].val, x[off[j].col])])
    IN  [x EXCEPT ![i] = FDiv(FAdd(r[i], FNeg(s)), A.diag[i])]

\* the rows of order, updated one after the other
RECURSIVE GSSweep(_, _, _, _)
GSSweep(A, r, x, order) ==
    IF order = <<>> THEN x
    ELSE GSSweep(A, r, GSRow(A, r, x, Head(order)), Tail(order))

\* the preconditioner on a hierarchy of one level: a symmetric Gauss-Seidel
\* smoother call (forward sweep, then backward sweep) on a zero guess
ComputeMG(A, r) ==
    LET n   == Len(A.rows)
        fwd == GSSweep(A, r, [i \in 1..n |-> Zero], [i \in 1..n |-> i])
    IN  GSSweep(A, r, fwd, [i \in 1..n |-> n + 1 - i])

(***************************************************************************)
(* The inputs of a CG call.                                                *)
(***************************************************************************)
\* a symmetric positive definite matrix (the 1-D Laplacian on the first two
\* rows, the identity on the others) and the matrix of ones (singular), both
\* with a nonzero diagonal
Laplacian == [i \in 1..nrow |-> [j \in 1..nrow |->
                 IF i = j THEN (IF i <= 2 THEN 2 ELSE 1)
                 ELSE IF i <= 2 /\ j <= 2 THEN -1 ELSE 0]]
Ones      == [i \in 1..nrow |-> [j \in 1..nrow |-> 1]]
Matrices   == {Packed(Laplacian), Packed(Ones)}
RightSides == {Vec([i \in 1..nrow |-> i % 2]), Vec([i \in 1..nrow |-> 0])}
Guesses    == {Vec([i \in 1..nrow |-> 0]),
               Vec([i \in 1..nrow |-> IF i = 1 THEN 1 ELSE IF i = 2 THEN -1 ELSE 0])}
Tolerances == {Rat(-1, 1), Zero, Rat(1, 2), One}
\* the values niters may hold when CG is called
NitersOnEntry == {0, 7}
\* the contents of times[] when CG is called
TimesOnEntry == {[i \in 0..6 |-> 1]}

(***************************************************************************)
(* The timer.  mytimer() returns the reading of a clock that has advanced  *)
(* by d ticks since it was last read.                                      *)
(***************************************************************************)
mytimer(s, d) == s.clock + d

\* TICK(): record current time in t0
TICK(s) == [s EXCEPT !.t0 = mytimer(s, 0)]

\* TOCK(t): t += mytimer() - t0, d ticks after the last reading
TOCK(s, t, d) == [s EXCEPT ![t] = s[t] + (mytimer(s, d) - s.t0), !.clock = mytimer(s, d)]

\* the ticks the clock can advance by before the next reading
Ticks(s) == 0..(IF s.clock < MaxClock THEN 1 ELSE 0)

(***************************************************************************)
(* CG (CG.hpp).  A call of CG is a frame: its arguments, its locals, the   *)
(* position pc of the call and the clock its timer reads.  The fields      *)
(* iters, mgCalls, pPrev, rtzPrev and entry record the history of the call:*)
(* the loop bodies completed, the invocations of the preconditioner, p and *)
(* rtz as the previous iteration left them, and the arguments on entry;    *)
(* halo is the time the call has spent exchanging halos.                   *)
(***************************************************************************)
\* the frame on entry, up to the warning of lines 149-151
CGEntry(A, b, x, maxIter, tolerance, niters, times, doPreconditioning) ==
    [A |-> A, b |-> b, x |-> x, maxIter |-> maxIter, tolerance |-> tolerance,
     niters |-> niters, normr |-> Zero, normr0 |-> Zero, times |-> times,
     doPreconditioning |-> doPreconditioning,
     t_begin |-> 0, clock |-> 0,
     normrFuture |-> NoFuture, pApFuture |-> NoFuture,
     rtzFuture |-> NoFuture, oldrtzFuture |-> NoFuture,
     alpha |-> Zero, beta |-> Zero,
     t0 |-> 0, t1 |-> 0, t2 |-> 0, t3 |-> 0, t4 |-> 0, t5 |-> 0, t6 |-> 0,
     r |-> [i \in 1..nrow |-> Zero], z |-> [i \in 1..nrow |-> Zero],
     p |-> [i \in 1..nrow |-> Zero], Ap |-> [i \in 1..nrow |-> Zero],
     k |-> 0, rc |-> -1, pc |-> "copy",
     iters |-> 0, mgCalls |-> 0, halo |-> 0,
     pPrev |-> [i \in 1..nrow |-> Zero], rtzPrev |-> NoFuture,
     entry |-> [x |-> x, niters |-> niters, times |-> times]]

\* line 153: p is of length ncols, copy x to p for sparse MV operation
CopyXToP(s) == [s EXCEPT !.p = CopyVector(s.x), !.pc = "spmv0"]

\* the exchange of the halo of p that ComputeSPMV starts with, taking h of
\* the ticks of the operation
ExchangeHalo(s, h) == [s EXCEPT !.halo = @ + h]

\* lines 155-157: Ap = A*p
InitSPMV(s, d) ==
    TOCK([TICK(s) EXCEPT !.Ap = ComputeSPMV(s.A, s.p), !.pc = "waxpby0"], "t3", d)

\* InitResidual with the operands of the subtraction exchanged: r = Ax - b
InitResidualSwapped(s, d) ==
    TOCK([TICK(s) EXCEPT !.r = ComputeWAXPBY(nrow, One, s.Ap, FNeg(One), s.b, s.r),
                         !.pc = "dot0"], "t2", d)

\* lines 159-161: r = b - Ax (x stored in p)
InitResidual(s, d) ==
    TOCK([TICK(s) EXCEPT !.r = ComputeWAXPBY(nrow, One, s.b, FNeg(One), s.Ap, s.r),
                         !.pc = "dot0"], "t2", d)

\* TimedDot with the all-reduce time added to the result instead of t4
TimedDotIntoResult(s, x, y, result, d, e) ==
    TOCK([TICK(s) EXCEPT ![result] = FAdd(ComputeDotProduct(nrow, x, y), Rat(e, 1))],
         "t1", d)

\* a ComputeDotProduct call of e ticks in the all-reduce, timed into t1:
\* TICK(); ComputeDotProduct(nrow, x, y, result, t4, ...); TOCK(t1)
TimedDot(s, x, y, result, d, e) ==
    TOCK([TICK(s) EXCEPT ![result] = ComputeDotProduct(nrow, x, y),
                         !.t4 = s.t4 + e], "t1", d)

\* lines 163-165: dot(r, r)
InitDot(s, d, e) == [TimedDot(s, s.r, s.r, "normrFuture", d, e) EXCEPT !.pc = "norm0"]

\* lines 167-175 (loop initialisation): normr = sqrt(normrFuture); normr0 = normr; k = 1
InitNorm(s) ==
    LET nr == ComputeFuture(s.normrFuture, "FMO_SQRT", NoFuture)
    IN  [s EXCEPT !.normr = nr, !.normr0 = nr, !.k = 1, !.pc = "test"]

\* LoopCondition without the test of the tolerance
LoopConditionNoTolerance(s) == s.k <= s.maxIter

\* line 175: k <= maxIter && normr / normr0 > tolerance
LoopCondition(s) == s.k <= s.maxIter /\ FGreater(FDiv(s.normr, s.normr0), s.tolerance)

LoopTest(s) == [s EXCEPT !.pc = IF LoopCondition(s) THEN "precond" ELSE "store"]

\* Precondition applying the preconditioner whatever doPreconditioning is
PreconditionAlways(s, d) ==
    TOCK([TICK(s) EXCEPT !.z = ComputeMG(s.A, s.r),
                         !.mgCalls = @ + 1,
                         !.pc = IF s.k = 1 THEN "p1" ELSE "rtz"], "t5", d)

\* lines 176-187: z = MG(A, r), or z = r without preconditioning; then the branch on k
Precondition(s, d) ==
    TOCK([TICK(s) EXCEPT !.z = IF s.doPreconditioning THEN ComputeMG(s.A, s.r)
                                                       ELSE CopyVector(s.r),
                         !.mgCalls = IF s.doPreconditioning THEN @ + 1 ELSE @,
                         !.pc = IF s.k = 1 THEN "p1" ELSE "rtz"], "t5", d)

\* lines 188-190 (k == 1): copy Mr to p
FirstDirection(s, d) ==
    TOCK([TICK(s) EXCEPT !.p = ComputeWAXPBY(nrow, One, s.z, Zero, s.z, s.p),
                         !.pc = "rtz1"], "t2", d)

\* lines 192-194 (k == 1): rtz = r' * z
FirstRtz(s, d, e) == [TimedDot(s, s.r, s.z, "rtzFuture", d, e) EXCEPT !.pc = "spmv"]

\* NextRtz saving rtz after it is recomputed: rtz = r' * z; oldrtz = rtz
NextRtzSavedLate(s, d, e) ==
    LET t == TimedDot(s, s.r, s.z, "rtzFuture", d, e)
    IN  [t EXCEPT !.oldrtzFuture = t.rtzFuture, !.pc = "beta"]

\* lines 197-201 (k > 1): oldrtz = rtz; rtz = r' * z
NextRtz(s, d, e) ==
    [TimedDot([s EXCEPT !.oldrtzFuture = s.rtzFuture], s.r, s.z, "rtzFuture", d, e)
        EXCEPT !.pc = "beta"]

\* lines 203-205 (k > 1): beta = rtz / oldrtz
NextBeta(s) ==
    [s EXCEPT !.beta = ComputeFuture(s.rtzFuture, "FMO_DIV", s.oldrtzFuture), !.pc = "p"]

\* lines 207-209 (k > 1): p = beta * p + z
NextDirection(s, d) ==
    TOCK([TICK(s) EXCEPT !.p = ComputeWAXPBY(nrow, One, s.z, s.beta, s.p, s.p),
                         !.pc = "spmv"], "t2", d)

\* lines 211-213: Ap = A * p
IterSPMV(s, d) ==
    TOCK([TICK(s) EXCEPT !.Ap = ComputeSPMV(s.A, s.p), !.pc = "pAp"], "t3", d)

\* lines 215-217: pAp = p' * Ap
IterPAp(s, d, e) == [TimedDot(s, s.p, s.Ap, "pApFuture", d, e) EXCEPT !.pc = "alpha"]

\* IterAlpha dividing the rtz of the previous iteration: alpha = oldrtz / pAp
IterAlphaOldRtz(s) ==
    [s EXCEPT !.alpha = ComputeFuture(s.oldrtzFuture, "FMO_DIV", s.pApFuture),
              !.pc = "update"]

\* lines 219-221: alpha = rtz / pAp
IterAlpha(s) ==
    [s EXCEPT !.alpha = ComputeFuture(s.rtzFuture, "FMO_DIV", s.pApFuture), !.pc = "update"]

\* lines 223-227: x = x + alpha * p; r = r - alpha * Ap
IterUpdate(s, d) ==
    TOCK([TICK(s) EXCEPT !.x = ComputeWAXPBY(nrow, One, s.x, s.alpha, s.p, s.x),
                         !.r = ComputeWAXPBY(nrow, One, s.r, FNeg(s.alpha), s.Ap, s.r),
                         !.pc = "dot"], "t2", d)

\* lines 229-231: dot(r, r)
IterDot(s, d, e) == [TimedDot(s, s.r, s.r, "normrFuture", d, e) EXCEPT !.pc = "norm"]

\* IterNorm assigning the new norm to normr0 as well
IterNormResetsNormr0(s) ==
    LET nr == ComputeFuture(s.normrFuture, "FMO_SQRT", NoFuture)
    IN  [s EXCEPT !.normr = nr, !.normr0 = nr, !.pc = "end"]

\* lines 233-235: normr = sqrt(normrFuture)
IterNorm(s) ==
    [s EXCEPT !.normr = ComputeFuture(s.normrFuture, "FMO_SQRT", NoFuture), !.pc = "end"]

\* lines 242-243 and the k++ of line 175: niters = k
IterEnd(s) ==
    [s EXCEPT !.niters = s.k, !.k = s.k + 1, !.pc = "test",
              !.iters = @ + 1, !.pPrev = s.p, !.rtzPrev = s.rtzFuture]

\* lines 246-252: the contents of times[] after the times of this call are added
StoredTimes(s, d) ==
    [i \in 0..6 |->
        CASE i = 0 -> s.times[0] + (mytimer(s, d) - s.t_begin)
          [] i = 1 -> s.times[1] + s.t1
          [] i = 2 -> s.times[2] + s.t2
          [] i = 3 -> s.times[3] + s.t3
          [] i = 4 -> s.times[4] + s.t4
          [] i = 5 -> s.times[5] + s.t5
          [] i = 6 -> s.times[6] + s.t6]

\* StoreTimes returning a non-zero status when the tolerance was not met
StoreTimesNotConverged(s, d) ==
    [s EXCEPT !.times = StoredTimes(s, d), !.clock = mytimer(s, d),
              !.rc = IF FGreater(FDiv(s.normr, s.normr0), s.tolerance) THEN 1 ELSE 0,
              !.pc = "done"]

\* lines 246-254: store times; return 0
StoreTimes(s, d) ==
    [s EXCEPT !.times = StoredTimes(s, d), !.clock = mytimer(s, d), !.rc = 0, !.pc = "done"]

\* the step of a call whose timer reads d ticks later at its next reading and
\* spends e of them in the all-reduce
CGStep(s, d, e) ==
    CASE s.pc = "copy"    -> CopyXToP(s)
      [] s.pc = "spmv0"   -> InitSPMV(s, d)
      [] s.pc = "waxpby0" -> InitResidual(s, d)
      [] s.pc = "dot0"    -> InitDot(s, d, e)
      [] s.pc = "norm0"   -> InitNorm(s)
      [] s.pc = "test"    -> LoopTest(s)
      [] s.pc = "precond" -> Precondition(s, d)
      [] s.pc = "p1"      -> FirstDirection(s, d)
      [] s.pc = "rtz1"    -> FirstRtz(s, d, e)
      [] s.pc = "rtz"     -> NextRtz(s, d, e)
      [] s.pc = "beta"    -> NextBeta(s)
      [] s.pc = "p"       -> NextDirection(s, d)
      [] s.pc = "spmv"    -> IterSPMV(s, d)
      [] s.pc = "pAp"     -> IterPAp(s, d, e)
      [] s.pc = "alpha"   -> IterAlpha(s)
      [] s.pc = "update"  -> IterUpdate(s, d)
      [] s.pc = "dot"     -> IterDot(s, d, e)
      [] s.pc = "norm"    -> IterNorm(s)
      [] s.pc = "end"     -> IterEnd(s)
      [] s.pc = "store"   -> StoreTimes(s, d)
      [] OTHER            -> s

(***************************************************************************)
(* symgs (comp-symgs.h).  The regions of one call are 0-based arrays: the  *)
(* matrix in rows of nCols slots (vals, mIdxs), the number of nonzeros in  *)
(* each row (nzir), the cached diagonal (diag), and the vectors x and r.   *)
(* Every array is cut into the sub-grids of its partitions; sgb gives the  *)
(* first index of a partition's sub-grid and the number of its elements.   *)
(***************************************************************************)
\* rows of the matrix
SNRows == 2 * MaxLocalRows

\* the rows of a tridiagonal matrix with the stencil <<lower, diagonal, upper>>
Stencil(st) ==
    [i \in 0..(SNRows - 1) |->
        SelectSeq(<<[col |-> i - 1, val |-> st[1]], [col |-> i, val |-> st[2]],
                    [col |-> i + 1, val |-> st[3]]>>,
                  LAMBDA e : e.col >= 0 /\ e.col < SNRows)]

\* the regions holding the matrix of the given rows, x and r
Regions(rows, x, r) ==
    [vals  |-> [q \in 0..(SNRows * SNCols - 1) |->
                   LET row == rows[q \div SNCols]
                       j   == (q % SNCols) + 1
                   IN  IF j <= Len(row) THEN Rat(row[j].val, 1) ELSE Zero],
     mIdxs |-> [q \in 0..(SNRows * SNCols - 1) |->
                   LET row == rows[q \div SNCols]
                       j   == (q % SNCols) + 1
                   IN  IF j <= Len(row) THEN row[j].col ELSE 0],
     nzir  |-> [i \in 0..(SNRows - 1) |-> Len(rows[i])],
     diag  |-> [i \in 0..(SNRows - 1) |->
                   LET row == rows[i]
                       at  == CHOOSE j \in 1..Len(row) : row[j].col = i
                   IN  Rat(row[at].val, 1)],
     x     |-> [i \in 0..(SNRows - 1) |-> Rat(x[i + 1], 1)],
     r     |-> [i \in 0..(SNRows - 1) |-> Rat(r[i + 1], 1)]]

\* sub-grid bounds of partition c of an array of len elements in parts partitions
sgb(len, parts, c) == [lo |-> c * (len \div parts), volume |-> len \div parts]

\* lines 236-237 and 257-258: xp[i], the element of x the update of local
\* row i reads for the diagonal and writes, xp pointing at element xlo
XElement(xlo, i) == xlo + i

\* a divisor taken from the first value stored for local row i
DivisorFirstStored(m, vlo, dlo, lNCols, i) == m.vals[vlo + i * lNCols]

\* lines 229 and 250: curDiag = adp[i], the cached diagonal of local row i,
\* which lines 237 and 258 divide by
Divisor(m, vlo, dlo, lNCols, i) == m.diag[dlo + i]

\* lines 221-238 and 242-259: the update of local row i by the task of a
\* partition whose sub-grids start at vlo (vals, mIdxs), dlo (diag, nzir)
\* and rlo (r), with xlo the first index of the whole of x
SymgsRow(m, vlo, dlo, rlo, xlo, lNCols, i) ==
    LET base    == vlo + i * lNCols
        cnnz    == m.nzir[dlo + i]
        curDiag == Divisor(m, vlo, dlo, lNCols, i)
        sub     == FSum([j \in 1..cnnz |->
                           FMul(m.vals[base + j - 1], m.x[xlo + m.mIdxs[base + j - 1]])])
        sum     == FAdd(FAdd(m.r[rlo + i], FNeg(sub)), FMul(m.x[XElement(xlo, i)], curDiag))
    IN  [m EXCEPT !.x[XElement(xlo, i)] = FDiv(sum, curDiag)]

RECURSIVE SymgsRows(_, _, _, _, _, _, _)
SymgsRows(m, vlo, dlo, rlo, xlo, lNCols, order) ==
    IF order = <<>> THEN m
    ELSE SymgsRows(SymgsRow(m, vlo, dlo, rlo, xlo, lNCols, Head(order)),
                   vlo, dlo, rlo, xlo, lNCols, Tail(order))

\* line 220: the sweep a task performs for its argument sweep
SweepDirection(sweep) == IF 1 = sweep THEN "forward" ELSE "backward"

\* lines 221 and 242: the local rows in the order the sweep visits them
SweepOrder(dir, lNRows) ==
    IF dir = "forward" THEN [q \in 1..lNRows |-> q - 1]
    ELSE [q \in 1..lNRows |-> lNRows - q]

\* lines 149-260: the task of point c of a launch over parts points
symgsTask(m, parts, c, sweep) ==
    LET vb     == sgb(SNRows * SNCols, parts, c)
        db     == sgb(SNRows, parts, c)
        rb     == sgb(SNRows, parts, c)
        lNRows == vb.volume \div SNCols
    IN  SymgsRows(m, vb.lo, db.lo, rb.lo, 0, SNCols,
                  SweepOrder(SweepDirection(sweep), lNRows))

\* lines 221, 237, 242 and 258: the elements of x the task of point c writes
symgsWrites(parts, c) ==
    LET lNRows == sgb(SNRows * SNCols, parts, c).volume \div SNCols
    IN  {XElement(0, i) : i \in 0..(lNRows - 1)}

\* lines 229, 237, 250 and 258: the divisions of the task of point c, each
\* with the row of the matrix it is for and the divisor curDiag
symgsDivisions(m, parts, c) ==
    LET vb     == sgb(SNRows * SNCols, parts, c)
        db     == sgb(SNRows, parts, c)
        lNRows == vb.volume \div SNCols
    IN  {[row |-> db.lo + i, by |-> Divisor(m, vb.lo, db.lo, SNCols, i)] :
            i \in 0..(lNRows - 1)}

\* a sanity test that leaves out the launch domain of r
SameLaunchDomainsOfAAndX(c) == c.volA = c.volX

\* line 75: all launch domains are the same size
SameLaunchDomains(c) == c.volA = c.volX /\ c.volX = c.volR

\* the executor runs a task once every task of the earlier launches, which
\* all write x, has finished; the tasks of one launch run in any order, one
\* at a time
CanRun(t, pending) == \A u \in pending : u.launch >= t.launch

\* the inputs of a symgs call
SymgsMatrices == {Stencil(<<-1, 2, -1>>), Stencil(<<-1, 4, 0>>)}
SymgsGuesses  == {[i \in 1..SNRows |-> 0], [i \in 1..SNRows |-> IF i = 1 THEN 1 ELSE 0]}
SymgsRhs      == {[i \in 1..SNRows |-> IF i = 1 THEN 1 ELSE 0], [i \in 1..SNRows |-> i]}
SymgsParts    == {1, 2}

(***************************************************************************)
(* State.  cg is a call of CG; twin is a call with the same arguments      *)
(* whose timer never advances, taking its steps together with cg.  call is *)
(* a call of symgs, mem the regions it works on, pending the tasks         *)
(* launched and not yet run, ran the tasks run so far, oldest first.       *)
(***************************************************************************)
VARIABLES cg, twin, call, mem, pending, ran, la, rtask, shards, coll, futures, got,
          multi

vars == <<cg, twin, call, mem, pending, ran, la, rtask, shards, coll, futures, got,
          multi>>
cgVars == <<cg, twin>>
symgsVars == <<call, mem, pending, ran>>
partVars == <<la>>
itemVars == <<rtask>>
reduceVars == <<shards, coll>>
futureVars == <<futures, got>>
multiVars == <<multi>>

\* no call in progress
NoCG == [pc |-> "idle"]
NoSymgs == [pc |-> "idle"]
NoArray == [pc |-> "idle"]
NoTask == [pc |-> "idle"]
NoColl == [pc |-> "idle"]
NoMulti == [pc |-> "idle"]

CGIdle == cg = NoCG /\ twin = NoCG
SymgsIdle == call = NoSymgs /\ mem = <<>> /\ pending = {} /\ ran = <<>>
PartIdle == la = NoArray
ItemIdle == rtask = NoTask
ReduceIdle == shards = <<>> /\ coll = NoColl
FutureIdle == futures = <<>> /\ got = <<>>
MultiIdle == multi = NoMulti

Init ==
    /\ \E A \in Matrices, b \in RightSides, x \in Guesses, maxIter \in 0..MaxIter,
          tolerance \in Tolerances, niters \in NitersOnEntry, times \in TimesOnEntry,
          doPreconditioning \in BOOLEAN :
          cg = CGEntry(A, b, x, maxIter, tolerance, niters, times, doPreconditioning)
    /\ twin = cg
    /\ SymgsIdle /\ PartIdle /\ ItemIdle /\ ReduceIdle /\ FutureIdle /\ MultiIdle

TwinStep ==
    /\ twin' = CGStep(twin, 0, 0)
    /\ UNCHANGED <<symgsVars, partVars, itemVars, reduceVars, futureVars, multiVars>>

CG_CopyXToP ==
    /\ cg.pc = "copy"
    /\ cg' = CopyXToP(cg)
    /\ TwinStep

CG_InitSPMV ==
    /\ cg.pc = "spmv0"
    /\ \E d \in Ticks(cg) : \E h \in 0..d : cg' = ExchangeHalo(InitSPMV(cg, d), h)
    /\ TwinStep

CG_InitResidual ==
    /\ cg.pc = "waxpby0"
    /\ \E d \in Ticks(cg) : cg' = InitResidual(cg, d)
    /\ TwinStep

CG_InitDot ==
    /\ cg.pc = "dot0"
    /\ \E d \in Ticks(cg) : \E e \in 0..d : cg' = InitDot(cg, d, e)
    /\ TwinStep

CG_InitNorm ==
    /\ cg.pc = "norm0"
    /\ cg' = InitNorm(cg)
    /\ TwinStep

CG_LoopTest ==
    /\ cg.pc = "test"
    /\ cg' = LoopTest(cg)
    /\ TwinStep

CG_Precondition ==
    /\ cg.pc = "precond"
    /\ \E d \in Ticks(cg) : cg' = Precondition(cg, d)
    /\ TwinStep

CG_FirstDirection ==
    /\ cg.pc = "p1"
    /\ \E d \in Ticks(cg) : cg' = FirstDirection(cg, d)
    /\ TwinStep

CG_FirstRtz ==
    /\ cg.pc = "rtz1"
    /\ \E d \in Ticks(cg) : \E e \in 0..d : cg' = FirstRtz(cg, d, e)
    /\ TwinStep

CG_NextRtz ==
    /\ cg.pc = "rtz"
    /\ \E d \in Ticks(cg) : \E e \in 0..d : cg' = NextRtz(cg, d, e)
    /\ TwinStep

CG_NextBeta ==
    /\ cg.pc = "beta"
    /\ cg' = NextBeta(cg)
    /\ TwinStep

CG_NextDirection ==
    /\ cg.pc = "p"
    /\ \E d \in Ticks(cg) : cg' = NextDirection(cg, d)
    /\ TwinStep

CG_IterSPMV ==
    /\ cg.pc = "spmv"
    /\ \E d \in Ticks(cg) : \E h \in 0..d : cg' = ExchangeHalo(IterSPMV(cg, d), h)
    /\ TwinStep

CG_IterPAp ==
    /\ cg.pc = "pAp"
    /\ \E d \in Ticks(cg) : \E e \in 0..d : cg' = IterPAp(cg, d, e)
    /\ TwinStep

CG_IterAlpha ==
    /\ cg.pc = "alpha"
    /\ cg' = IterAlpha(cg)
    /\ TwinStep

CG_IterUpdate ==
    /\ cg.pc = "update"
    /\ \E d \in Ticks(cg) : cg' = IterUpdate(cg, d)
    /\ TwinStep

CG_IterDot ==
    /\ cg.pc = "dot"
    /\ \E d \in Ticks(cg) : \E e \in 0..d : cg' = IterDot(cg, d, e)
    /\ TwinStep

CG_IterNorm ==
    /\ cg.pc = "norm"
    /\ cg' = IterNorm(cg)
    /\ TwinStep

CG_IterEnd ==
    /\ cg.pc = "end"
    /\ cg' = IterEnd(cg)
    /\ TwinStep

CG_StoreTimes ==
    /\ cg.pc = "store"
    /\ \E d \in Ticks(cg) : cg' = StoreTimes(cg, d)
    /\ TwinStep

Next ==
    \/ CG_CopyXToP \/ CG_InitSPMV \/ CG_InitResidual \/ CG_InitDot \/ CG_InitNorm
    \/ CG_LoopTest \/ CG_Precondition
    \/ CG_FirstDirection \/ CG_FirstRtz
    \/ CG_NextRtz \/ CG_NextBeta \/ CG_NextDirection
    \/ CG_IterSPMV \/ CG_IterPAp \/ CG_IterAlpha \/ CG_IterUpdate
    \/ CG_IterDot \/ CG_IterNorm \/ CG_IterEnd
    \/ CG_StoreTimes

Spec == Init /\ [][Next]_vars

(***************************************************************************)
(* A call of symgs and the tasks it launches.                              *)
(***************************************************************************)
exceptSymgs == <<cgVars, partVars, itemVars, reduceVars, futureVars, multiVars>>

SymgsInit ==
    /\ \E rows \in SymgsMatrices, x \in SymgsGuesses, r \in SymgsRhs :
          mem = Regions(rows, x, r)
    /\ \E volA \in SymgsParts, volX \in SymgsParts, volR \in SymgsParts :
          call = [pc |-> "assert", volA |-> volA, volX |-> volX, volR |-> volR,
                  sweepi |-> 0, launched |-> 0]
    /\ pending = {} /\ ran = <<>>
    /\ CGIdle /\ PartIdle /\ ItemIdle /\ ReduceIdle /\ FutureIdle /\ MultiIdle

\* lines 74-76: sanity - make sure that all launch domains are the same size
Symgs_Sanity ==
    /\ call.pc = "assert"
    /\ call' = [call EXCEPT !.pc = IF SameLaunchDomains(call) THEN "args" ELSE "aborted"]
    /\ UNCHANGED <<mem, pending, ran, exceptSymgs>>

\* lines 77-94: setup per-task args; sweepi = 0
Symgs_Args ==
    /\ call.pc = "args"
    /\ call' = [call EXCEPT !.pc = "launch", !.sweepi = 0]
    /\ UNCHANGED <<mem, pending, ran, exceptSymgs>>

\* lines 94-133: one turn of the loop launches a task for every point of
\* A.vals.lDom() with the current sweepi as its argument
Symgs_Launch ==
    /\ call.pc = "launch"
    /\ call.sweepi < 2
    /\ pending' = pending \cup
                    {[launch |-> call.launched, point |-> c, sweep |-> call.sweepi] :
                        c \in 0..(call.volA - 1)}
    /\ call' = [call EXCEPT !.sweepi = @ + 1, !.launched = @ + 1]
    /\ UNCHANGED <<mem, ran, exceptSymgs>>

\* line 134: the loop is over
Symgs_Return ==
    /\ call.pc = "launch"
    /\ ~(call.sweepi < 2)
    /\ call' = [call EXCEPT !.pc = "returned"]
    /\ UNCHANGED <<mem, pending, ran, exceptSymgs>>

\* lines 139-261: the executor runs a launched task
Symgs_Task ==
    /\ \E t \in pending :
          /\ CanRun(t, pending)
          /\ mem' = symgsTask(mem, call.volA, t.point, t.sweep)
          /\ pending' = pending \ {t}
          /\ ran' = Append(ran, [launch |-> t.launch, point |-> t.point,
                                 sweep |-> SweepDirection(t.sweep), before |-> mem.x,
                                 wrote |-> symgsWrites(call.volA, t.point),
                                 divided |-> symgsDivisions(mem, call.volA, t.point)])
    /\ UNCHANGED <<call, exceptSymgs>>

SymgsNext ==
    \/ Symgs_Sanity \/ Symgs_Args \/ Symgs_Launch \/ Symgs_Return \/ Symgs_Task

SymgsSpec == SymgsInit /\ [][SymgsNext]_vars

(***************************************************************************)
(* Properties of CG.                                                       *)
(***************************************************************************)
\* the scaled residual the loop condition tests
Ratio(s) == FDiv(s.normr, s.normr0)

\* the positions inside the loop body at which normr is still the value the
\* loop condition tested when the iteration was started
BodyBeforeNorm ==
    {"precond", "p1", "rtz1", "rtz", "beta", "p", "spmv", "pAp", "alpha", "update",
     "dot", "norm"}

\* C1 as stated: when CG returns, normr/normr0 <= tolerance or exactly maxIter
\* iterations were executed, and no iteration is started while
\* normr/normr0 <= tolerance.
C1_ConvergedOrMaxIter ==
    /\ cg.pc = "done" => FLessEq(Ratio(cg), cg.tolerance) \/ cg.iters = cg.maxIter
    /\ cg.pc \in BodyBeforeNorm => ~FLessEq(Ratio(cg), cg.tolerance)

\* C1 amended: when CG returns, normr/normr0 > tolerance is false (the ratio
\* is <= tolerance, or it is NaN) or exactly maxIter iterations were
\* executed, and an iteration is started only while normr/normr0 > tolerance.
C1_NotAboveOrMaxIter ==
    /\ cg.pc = "done" => ~FGreater(Ratio(cg), cg.tolerance) \/ cg.iters = cg.maxIter
    /\ cg.pc \in BodyBeforeNorm => FGreater(Ratio(cg), cg.tolerance) /\ cg.iters < cg.maxIter

\* CG has returned before maxIter iterations because the ratio is NaN
C1_Witness ==
    /\ cg.pc = "done"
    /\ cg.iters > 0 /\ cg.iters < cg.maxIter
    /\ Ratio(cg).k = "nan"

\* C2 as stated (its safety part): at most maxIter loop bodies are executed,
\* k counts 1, 2, ... one ahead of the bodies completed, and the niters
\* reported on return never exceeds maxIter.
C2_BoundedIterations ==
    /\ cg.iters <= cg.maxIter
    /\ cg.pc \notin {"copy", "spmv0", "waxpby0", "dot0", "norm0"} => cg.k = cg.iters + 1
    /\ cg.pc = "done" => cg.niters <= cg.maxIter

\* C3: CG returns status zero on every path, converged or not, and has no
\* other status before it returns.
C3_StatusZero ==
    /\ cg.pc = "done" => cg.rc = 0
    /\ cg.pc # "done" => cg.rc = -1

\* CG has returned after maxIter iterations with the ratio above tolerance
C3_Witness ==
    /\ cg.pc = "done"
    /\ cg.maxIter > 0 /\ cg.iters = cg.maxIter
    /\ FGreater(Ratio(cg), cg.tolerance)
    /\ cg.rc = 0

\* C4 as stated: on return niters equals the number of iterations performed,
\* whatever it held on entry.
C4_NitersIsIterations == cg.pc = "done" => cg.niters = cg.iters

\* C5: once alpha is computed in an iteration, it is dot(r,z) / dot(p,Ap) of
\* the r, z, p and Ap of that iteration, and both deferred scalars hold
\* exactly these dot products.
C5_AlphaUsesCurrentRtz ==
    cg.pc = "update" =>
        /\ cg.rtzFuture = ComputeDotProduct(nrow, cg.r, cg.z)
        /\ cg.pApFuture = ComputeDotProduct(nrow, cg.p, cg.Ap)
        /\ cg.alpha = FDiv(ComputeDotProduct(nrow, cg.r, cg.z),
                           ComputeDotProduct(nrow, cg.p, cg.Ap))

\* alpha of an iteration k > 1 whose rtz differs from the rtz of iteration k-1
C5_Witness ==
    /\ cg.pc = "update"
    /\ cg.k > 1
    /\ cg.rtzFuture # cg.rtzPrev
    /\ IsFin(cg.alpha) /\ cg.alpha.n # 0

\* C6: after the direction update of iteration 1, p is z, rtz is dot(r,z) and
\* beta has not been computed; after that of an iteration k > 1, beta is
\* dot(r,z) divided by the rtz of iteration k-1, saved as oldrtz, and p is
\* z + beta * p with the p of iteration k-1.
C6_DirectionUpdate ==
    cg.pc = "spmv" =>
        /\ cg.rtzFuture = ComputeDotProduct(nrow, cg.r, cg.z)
        /\ cg.k = 1 => /\ cg.p = cg.z
                       /\ cg.beta = Zero
                       /\ cg.oldrtzFuture = NoFuture
        /\ cg.k > 1 => /\ cg.oldrtzFuture = cg.rtzPrev
                       /\ cg.beta = FDiv(ComputeDotProduct(nrow, cg.r, cg.z), cg.rtzPrev)
                       /\ cg.p = [i \in 1..nrow |->
                                    FAdd(cg.z[i], FMul(cg.beta, cg.pPrev[i]))]

\* the direction of an iteration k > 1 with a beta that is neither 0 nor 1
C6_Witness ==
    /\ cg.pc = "spmv"
    /\ cg.k > 1
    /\ IsFin(cg.beta) /\ cg.beta.n # 0 /\ cg.beta # One
    /\ cg.p # cg.z

\* the residual b - A*x of a guess x
Residual(A, b, x) ==
    LET Ax == ComputeSPMV(A, x)
    IN  [i \in 1..nrow |-> FAdd(b[i], FNeg(Ax[i]))]

\* C7: Init performs p := x, Ap := SPMV(A,p), r := b - Ap,
\* normr0 := sqrt(dot(r,r)) in this order before any iteration and leaves x
\* alone; the normr0 reported on return is the residual norm of the guess.
C7_InitSequence ==
    LET x0 == cg.entry.x
        r0 == Residual(cg.A, cg.b, x0)
        InitPcs == <<"copy", "spmv0", "waxpby0", "dot0", "norm0">>
        At(i) == cg.pc = InitPcs[i]
        After(i) == ~(\E j \in 1..i : At(j))
    IN  /\ (\E i \in 1..5 : At(i)) => cg.iters = 0 /\ cg.k = 0 /\ cg.x = x0
        /\ After(1) /\ cg.iters = 0 /\ cg.pc \notin {"p1", "rtz1", "spmv", "pAp", "alpha",
                                                      "update", "dot", "norm", "end"}
              => cg.p = x0
        /\ After(2) /\ cg.iters = 0 /\ cg.pc \notin {"spmv", "pAp", "alpha", "update",
                                                      "dot", "norm", "end"}
              => cg.Ap = ComputeSPMV(cg.A, x0)
        /\ After(3) /\ cg.iters = 0 /\ cg.pc \notin {"update", "dot", "norm", "end"}
              => cg.r = r0
        /\ At(5) => cg.normrFuture = ComputeDotProduct(nrow, r0, r0)
        /\ After(5) => cg.normr0 = FSqrt(ComputeDotProduct(nrow, r0, r0))
        /\ cg.pc = "test" /\ cg.iters = 0 => cg.x = x0 /\ cg.normr = cg.normr0

\* CG has returned after iterations that changed x, from a guess with a
\* nonzero residual
C7_Witness ==
    /\ cg.pc = "done"
    /\ cg.iters > 0
    /\ cg.x # cg.entry.x
    /\ cg.normr0.n # 0 /\ cg.normr0 # cg.normr

\* the positions of the loop body after the preconditioner step
AfterPrecond ==
    {"p1", "rtz1", "rtz", "beta", "p", "spmv", "pAp", "alpha", "update", "dot", "norm", "end"}

\* C8: in every iteration z is in place before rtz is computed: z is MG(A,r)
\* with preconditioning and a copy of r without it; MG is invoked once in
\* every iteration with preconditioning and never without it.
C8_PreconditionerChoice ==
    /\ cg.pc \in {"p1", "rtz1", "rtz", "beta", "p", "spmv", "pAp", "alpha", "update"} =>
          cg.z = IF cg.doPreconditioning THEN ComputeMG(cg.A, cg.r) ELSE cg.r
    /\ cg.pc \in {"spmv", "beta"} => cg.rtzFuture = ComputeDotProduct(nrow, cg.r, cg.z)
    /\ cg.pc \notin {"idle"} =>
          cg.mgCalls = IF cg.doPreconditioning
                       THEN cg.iters + (IF cg.pc \in AfterPrecond THEN 1 ELSE 0)
                       ELSE 0

\* rtz is about to be computed in an iteration k > 1 from a z that MG produced
C8_Witness ==
    /\ cg.pc = "rtz"
    /\ cg.doPreconditioning
    /\ cg.mgCalls = 2
    /\ cg.z # cg.r

\* a frame without its timing: the clock, t_begin, t0..t6, times and the
\* time spent in halo exchanges
Untimed(s) ==
    [s EXCEPT !.clock = 0, !.t_begin = 0, !.t0 = 0, !.t1 = 0, !.t2 = 0, !.t3 = 0,
              !.t4 = 0, !.t5 = 0, !.t6 = 0, !.times = <<>>, !.halo = 0]

\* C9: a call and the call with the same arguments whose timer never advances
\* are at the same operation and agree on everything but the timing, so
\* any two calls with the same arguments do; on return niters, normr,
\* normr0, x and the status agree.
C9_TimingHasNoInfluence == Untimed(cg) = Untimed(twin)

\* both calls have returned after iterations, with different times
C9_Witness ==
    /\ cg.pc = "done" /\ twin.pc = "done"
    /\ cg.iters > 1
    /\ cg.times # twin.times
    /\ cg.t4 > 0

(***************************************************************************)
(* Properties of symgs.                                                    *)
(***************************************************************************)
\* the sweeps run on partition c, oldest first
SweepsOf(c) ==
    LET mine == SelectSeq(ran, LAMBDA t : t.point = c)
    IN  [i \in 1..Len(mine) |-> mine[i].sweep]

\* C10 as stated: a call performs exactly two sweeps, of which the first to
\* run is the forward sweep and the second the backward sweep.
C10_ForwardThenBackward ==
    /\ \A c \in 0..1 : Len(SweepsOf(c)) <= 2
    /\ \A c \in 0..1 : SweepsOf(c) # <<>> => SweepsOf(c)[1] = "forward"
    /\ call.pc = "returned" /\ pending = {} =>
          \A c \in 0..(call.volA - 1) : SweepsOf(c) = <<"forward", "backward">>

\* the entry A[g][j] of the matrix the regions hold: the stored nonzeros of
\* row g in column j
Entry(m, g, j) ==
    FSum(SelectSeq([q \in 1..m.nzir[g] |->
                       IF m.mIdxs[g * SNCols + q - 1] = j
                       THEN m.vals[g * SNCols + q - 1] ELSE Zero],
                   LAMBDA v : v # Zero))

\* x after the Gauss-Seidel update of row g:
\* x[g] = (r[g] - sum over j # g of A[g][j] * x[j]) / A[g][g]
GaussSeidelRow(m, x, g) ==
    LET off == FSum(SelectSeq([q \in 1..SNRows |->
                                  IF q - 1 = g THEN Zero
                                  ELSE FMul(Entry(m, g, q - 1), x[q - 1])],
                              LAMBDA v : v # Zero))
    IN  [x EXCEPT ![g] = FDiv(FAdd(m.r[g], FNeg(off)), Entry(m, g, g))]

\* x after the Gauss-Seidel updates of the rows in the given order, each
\* reading the values the rows before it have written
RECURSIVE GaussSeidel(_, _, _)
GaussSeidel(m, x, order) ==
    IF order = <<>> THEN x
    ELSE GaussSeidel(m, GaussSeidelRow(m, x, Head(order)), Tail(order))

\* the rows partition c owns
OwnedRows(c) ==
    LET n == SNRows \div call.volA
    IN  (c * n)..(c * n + n - 1)

\* x as the q-th task that ran has left it
XAfter(q) == IF q < Len(ran) THEN ran[q + 1].before ELSE mem.x

\* every stored row holds its diagonal once, with the cached value
DiagonalStoredOnce ==
    \A g \in 0..(SNRows - 1) :
        /\ Cardinality({q \in 1..mem.nzir[g] : mem.mIdxs[g * SNCols + q - 1] = g}) = 1
        /\ Entry(mem, g, g) = mem.diag[g]

\* C11 as stated: a sweep of symgsTask leaves in every row i of its
\* partition x[i] = (r[i] - sum over j # i of A[i][j] * x[j]) / A[i][i], the
\* x[j] being those written earlier in the sweep and the values before the
\* sweep otherwise, when every row stores its diagonal once with the cached
\* value.
C11_GaussSeidelUpdate ==
    call.pc # "idle" /\ DiagonalStoredOnce =>
        \A q \in 1..Len(ran) :
            LET t      == ran[q]
                n      == SNRows \div call.volA
                lo     == t.point * n
                local  == SweepOrder(t.sweep, n)
                rows   == [i \in 1..n |-> lo + local[i]]
                expect == GaussSeidel(mem, t.before, rows)
            IN  \A g \in OwnedRows(t.point) : XAfter(q)[g] = expect[g]

\* the same with one partition only, whose rows are the rows the task
\* indexes x with
Symgs_SinglePartitionUpdate ==
    call.pc # "idle" /\ call.volA = 1 => C11_GaussSeidelUpdate

\* C12 as stated: the task of partition c writes only elements of x in the
\* rows partition c owns, so that no element of x is written by the tasks
\* of two partitions in one sweep.
C12_WritesOwnRowsOnly ==
    /\ \A q \in 1..Len(ran) : ran[q].wrote \subseteq OwnedRows(ran[q].point)
    /\ \A q \in 1..Len(ran) : \A p \in 1..Len(ran) :
          ran[q].launch = ran[p].launch /\ ran[q].point # ran[p].point
              => ran[q].wrote \cap ran[p].wrote = {}

\* the tasks symgs has launched so far, as <<launch, point, sweep argument>>
Launched ==
    {<<t.launch, t.point, t.sweep>> : t \in pending}
        \cup {<<ran[q].launch, ran[q].point, IF ran[q].sweep = "forward" THEN 1 ELSE 0>> :
                 q \in 1..Len(ran)}

\* C15: when the launch domains of A.vals, x and r are not all of the same
\* size, symgs aborts without having launched a task; when they are, it has
\* launched, on return, one task for every partition in each of its two
\* launches, the launches differing in the sweep argument, and no other.
C15_AbortsBeforeLaunch ==
    /\ call.pc # "idle" /\ Cardinality({call.volA, call.volX, call.volR}) > 1 =>
          /\ call.pc \in {"assert", "aborted"}
          /\ call.launched = 0 /\ pending = {} /\ ran = <<>>
    /\ call.pc # "idle" /\ Cardinality({call.volA, call.volX, call.volR}) = 1 =>
          call.pc # "aborted"
    /\ call.pc = "returned" =>
          /\ Launched = {<<l, c, l>> : l \in 0..1, c \in 0..(call.volA - 1)}
          /\ Cardinality(pending) + Len(ran) = 2 * call.volA

\* symgs has aborted on launch domains of different sizes
C15_Witness ==
    /\ call.pc = "aborted"
    /\ call.volA = call.volX /\ call.volX # call.volR
    /\ pending = {} /\ ran = <<>>

(***************************************************************************)
(* LogicalArray::partition.  la is a LogicalArray together with the frame  *)
(* of a call of one of the two overloads of partition.  A Rect<1> is       *)
(* [lo, hi]; an index partition is the colour domain and the colouring it  *)
(* was created from; a logical partition names its index partition.        *)
(***************************************************************************)
\* the longest array
MaxLength == 4
\* the most entries of partLens
MaxLens == 3

Rect(lo, hi) == [lo |-> lo, hi |-> hi]
Points(rect) == rect.lo..rect.hi

\* the handles of an array that was never partitioned
NoHandle == [exists |-> FALSE]

\* the runtime creates the index partition of a parent index space from a
\* colouring
create_index_partition(parent, colorDomain, coloring, disjoint) ==
    [exists |-> TRUE, parent |-> parent, colorDomain |-> colorDomain,
     coloring |-> coloring, disjoint |-> disjoint]

\* the runtime names the logical partition of a region by its index partition
get_logical_partition(region, indexPartition) ==
    [exists |-> TRUE, region |-> region, indexPartition |-> indexPartition]

\* a colouring the runtime cannot refuse: every rectangle lies in the parent
\* and no two of them meet
WellFormed(parent, coloring) ==
    /\ \A c \in DOMAIN coloring : Points(coloring[c]) \subseteq Points(parent)
    /\ \A c \in DOMAIN coloring : \A e \in DOMAIN coloring :
          c # e => Points(coloring[c]) \cap Points(coloring[e]) = {}

\* LegionItems.hpp lines 313-317: an allocated array of len elements
Allocated(len) == [mLength |-> len, mBounds |-> Rect(0, len - 1)]

\* the array as partition(1) leaves it
PartitionedOnce(len) ==
    LET ip == create_index_partition(Rect(0, len - 1), Rect(0, 0),
                                     [c \in {0} |-> Rect(0, len - 1)], TRUE)
    IN  [indexPartition |-> ip,
         logicalPartition |-> get_logical_partition(Rect(0, len - 1), ip),
         launchDomain |-> Rect(0, 0)]

NeverPartitioned ==
    [indexPartition |-> NoHandle, logicalPartition |-> NoHandle, launchDomain |-> NoHandle]

\* the frame of a call on an array of len elements with the handles h
PartitionEntry(len, h, overload, nParts, partLens) ==
    [pc |-> "entry", overload |-> overload,
     mLength |-> len, mBounds |-> Allocated(len).mBounds,
     indexPartition |-> h.indexPartition, logicalPartition |-> h.logicalPartition,
     launchDomain |-> h.launchDomain,
     nParts |-> nParts, partLens |-> partLens,
     inc |-> 0, colorDomain |-> NoHandle, x0 |-> 0, x1 |-> 0, color |-> 0,
     disjointColoring |-> <<>>, subGridBounds |-> <<>>,
     entry |-> h]

\* a test that lets every number of parts pass
AnyPartitioning(s) == TRUE

\* line 87: only allow even partitioning
EvenPartitioning(s) == 0 = s.mLength % s.nParts

\* lines 87-99: the sanity test, then the increment, the colour domain and
\* the first window
EvenSetup(s) ==
    IF ~EvenPartitioning(s) THEN [s EXCEPT !.pc = "aborted"]
    ELSE LET inc == s.mLength \div s.nParts
         IN  [s EXCEPT !.pc = "color", !.inc = inc,
                       !.colorDomain = Rect(0, s.nParts - 1),
                       !.x0 = 0, !.x1 = inc - 1, !.color = 0]

\* a turn of the loop that leaves the lower end of the window where it is
EvenColorFixedOrigin(s) ==
    LET subRect == Rect(s.x0, s.x1)
    IN  [s EXCEPT !.subGridBounds = Append(@, subRect),
                  !.disjointColoring = [c \in 0..s.color |->
                                          IF c = s.color THEN subRect ELSE @[c]],
                  !.x1 = @ + s.inc, !.color = @ + 1]

\* lines 104-115: one turn of the loop colours the window and slides it
EvenColor(s) ==
    LET subRect == Rect(s.x0, s.x1)
    IN  [s EXCEPT !.subGridBounds = Append(@, subRect),
                  !.disjointColoring = [c \in 0..s.color |->
                                          IF c = s.color THEN subRect ELSE @[c]],
                  !.x0 = @ + s.inc, !.x1 = @ + s.inc, !.color = @ + 1]

\* a setup whose colours start at 1
LensSetupColoursFromOne(s) ==
    [s EXCEPT !.pc = "color", !.nParts = Len(s.partLens),
              !.colorDomain = Rect(1, Len(s.partLens)),
              !.x0 = 0, !.x1 = 0, !.color = 0]

\* lines 145-149: the number of parts, the colour domain and the origin
LensSetup(s) ==
    [s EXCEPT !.pc = "color", !.nParts = Len(s.partLens),
              !.colorDomain = Rect(0, Len(s.partLens) - 1),
              !.x0 = 0, !.x1 = 0, !.color = 0]

\* a turn of the loop whose window ends one element too far
LensColorInclusiveEnd(s) ==
    LET len     == s.partLens[s.color + 1]
        x1      == s.x0 + len
        subRect == Rect(s.x0, x1)
    IN  [s EXCEPT !.subGridBounds = Append(@, subRect),
                  !.disjointColoring = [c \in 0..s.color |->
                                          IF c = s.color THEN subRect ELSE @[c]],
                  !.x1 = x1, !.x0 = @ + len, !.color = @ + 1]

\* lines 153-166: one turn of the loop colours partLens[color] elements from
\* x0 on and slides the window
LensColor(s) ==
    LET len     == s.partLens[s.color + 1]
        x1      == s.x0 + len - 1
        subRect == Rect(s.x0, x1)
    IN  [s EXCEPT !.subGridBounds = Append(@, subRect),
                  !.disjointColoring = [c \in 0..s.color |->
                                          IF c = s.color THEN subRect ELSE @[c]],
                  !.x1 = x1, !.x0 = @ + len, !.color = @ + 1]

\* lines 116-123 and 167-174: the index partition of the colouring
CreateIndexPartition(s) ==
    [s EXCEPT !.pc = "logical",
              !.indexPartition = create_index_partition(s.mBounds, s.colorDomain,
                                                        s.disjointColoring, TRUE)]

\* lines 125-129 and 176-180: the logical partition
GetLogicalPartition(s) ==
    [s EXCEPT !.pc = "launch",
              !.logicalPartition = get_logical_partition(s.mBounds, s.indexPartition)]

\* lines 131-133 and 182-184: launch domain -- one task per color
SetLaunchDomain(s) == [s EXCEPT !.pc = "done", !.launchDomain = s.colorDomain]

\* the arguments of the calls
PartLens == UNION {[1..n -> (-1)..MaxLength] : n \in 1..MaxLens}

\* a call run to its end, the runtime creating the partition
RECURSIVE PartitionRun(_)
PartitionRun(s) ==
    CASE s.pc = "entry" ->
            PartitionRun(IF s.overload = "nParts" THEN EvenSetup(s) ELSE LensSetup(s))
      [] s.pc = "color" /\ s.color < s.nParts ->
            PartitionRun(IF s.overload = "nParts" THEN EvenColor(s) ELSE LensColor(s))
      [] s.pc = "color" /\ ~(s.color < s.nParts) -> PartitionRun(CreateIndexPartition(s))
      [] s.pc = "logical" -> PartitionRun(GetLogicalPartition(s))
      [] s.pc = "launch" -> PartitionRun(SetLaunchDomain(s))
      [] OTHER -> s

exceptPart == <<cgVars, symgsVars, itemVars, reduceVars, futureVars, multiVars>>

PartInit ==
    /\ \E len \in 1..MaxLength, before \in BOOLEAN :
          LET h == IF before THEN PartitionedOnce(len) ELSE NeverPartitioned
          IN  \/ \E nParts \in 1..MaxLength :
                    la = PartitionEntry(len, h, "nParts", nParts, <<>>)
              \/ \E partLens \in PartLens :
                    la = PartitionEntry(len, h, "partLens", 0, partLens)
    /\ CGIdle /\ SymgsIdle /\ ItemIdle /\ ReduceIdle /\ FutureIdle /\ MultiIdle

Part_EvenSetup ==
    /\ la.pc = "entry" /\ la.overload = "nParts"
    /\ la' = EvenSetup(la)
    /\ UNCHANGED exceptPart

Part_EvenColor ==
    /\ la.pc = "color" /\ la.overload = "nParts"
    /\ la.color < la.nParts
    /\ la' = EvenColor(la)
    /\ UNCHANGED exceptPart

Part_LensSetup ==
    /\ la.pc = "entry" /\ la.overload = "partLens"
    /\ la' = LensSetup(la)
    /\ UNCHANGED exceptPart

Part_LensColor ==
    /\ la.pc = "color" /\ la.overload = "partLens"
    /\ la.color < la.nParts
    /\ la' = LensColor(la)
    /\ UNCHANGED exceptPart

\* the runtime creates the partition of a well-formed colouring; what it
\* does with any other depends on the checks it was built with
Part_CreateIndexPartition ==
    /\ la.pc = "color"
    /\ ~(la.color < la.nParts)
    /\ \/ la' = CreateIndexPartition(la)
       \/ /\ ~WellFormed(la.mBounds, la.disjointColoring)
          /\ la' = [la EXCEPT !.pc = "aborted"]
    /\ UNCHANGED exceptPart

Part_GetLogicalPartition ==
    /\ la.pc = "logical"
    /\ la' = GetLogicalPartition(la)
    /\ UNCHANGED exceptPart

Part_SetLaunchDomain ==
    /\ la.pc = "launch"
    /\ la' = SetLaunchDomain(la)
    /\ UNCHANGED exceptPart

PartNext ==
    \/ Part_EvenSetup \/ Part_EvenColor \/ Part_LensSetup \/ Part_LensColor
    \/ Part_CreateIndexPartition \/ Part_GetLogicalPartition \/ Part_SetLaunchDomain

PartSpec == PartInit /\ [][PartNext]_vars

(***************************************************************************)
(* Properties of LogicalArray::partition.                                  *)
(***************************************************************************)
\* the handles of the array
HandlesOf(s) ==
    [indexPartition |-> s.indexPartition, logicalPartition |-> s.logicalPartition,
     launchDomain |-> s.launchDomain]

\* C13: partition(nParts) with nParts >= 1 not dividing the length aborts on
\* entry: it goes no further than its sanity test, and the index partition,
\* the logical partition and the launch domain stay what they were.
C13_UnevenPartitioningAborts ==
    la.pc # "idle" /\ la.overload = "nParts" /\ la.mLength % la.nParts # 0 =>
        /\ la.pc \in {"entry", "aborted"}
        /\ HandlesOf(la) = la.entry
        /\ la.disjointColoring = <<>> /\ la.subGridBounds = <<>>

\* partition(nParts) has aborted on an array that was partitioned before
C13_Witness ==
    /\ la.pc = "aborted" /\ la.overload = "nParts"
    /\ la.nParts > 1 /\ la.nParts < la.mLength /\ la.mLength % la.nParts # 0
    /\ la.entry = PartitionedOnce(la.mLength)
    /\ HandlesOf(la) = la.entry

RECURSIVE SumOfLens(_)
SumOfLens(partLens) ==
    IF partLens = <<>> THEN 0 ELSE Head(partLens) + SumOfLens(Tail(partLens))

\* lengths that are all positive and add up to the length of the array
LensMatch(s) ==
    /\ \A c \in 1..Len(s.partLens) : s.partLens[c] > 0
    /\ SumOfLens(s.partLens) = s.mLength

\* C14 as stated: partition(partLens) aborts instead of creating a partition
\* when the entries of partLens do not add up to the length of the array or
\* one of them is zero or negative.
C14_MismatchedLengthsAbort ==
    la.pc # "idle" /\ la.overload = "partLens" /\ ~LensMatch(la) =>
        /\ la.pc \in {"entry", "color", "aborted"}
        /\ HandlesOf(la) = la.entry

\* C20: when partition(nParts) returns, nParts divides the length L, the
\* index partition has the colours 0..nParts-1, colour c covers exactly
\* [c*L/nParts, (c+1)*L/nParts - 1], a contiguous range of L/nParts elements,
\* the ranges are pairwise disjoint and their union is [0, L-1], and the
\* launch domain has one point for each colour.
C20_EvenDisjointCover ==
    la.pc = "done" /\ la.overload = "nParts" =>
        LET L   == la.mLength
            n   == la.nParts
            col == la.indexPartition.coloring
        IN  /\ L % n = 0
            /\ DOMAIN col = 0..(n - 1)
            /\ \A c \in 0..(n - 1) :
                  /\ Points(col[c]) = (c * (L \div n))..((c + 1) * (L \div n) - 1)
                  /\ Cardinality(Points(col[c])) = L \div n
            /\ \A c \in 0..(n - 1) : \A e \in 0..(n - 1) :
                  c # e => Points(col[c]) \cap Points(col[e]) = {}
            /\ UNION {Points(col[c]) : c \in 0..(n - 1)} = 0..(L - 1)
            /\ la.logicalPartition.indexPartition = la.indexPartition
            /\ Points(la.launchDomain) = 0..(n - 1)

\* partition(nParts) has returned with more than one part of more than one
\* element
C20_Witness ==
    /\ la.pc = "done" /\ la.overload = "nParts"
    /\ la.nParts > 1 /\ la.mLength > la.nParts
    /\ Len(la.subGridBounds) = la.nParts

(***************************************************************************)
(* Items and ComputeResidualTask.  rtask is a run of ComputeResidualTask   *)
(* on two physical regions; a region is its bounds and the values it       *)
(* holds; the data pointer of an Item is null or points at the values.     *)
(***************************************************************************)
\* the most elements of a region of the task
MaxN == 2

FAbs(a) == IF IsFin(a) THEN [a EXCEPT !.n = Abs(a.n)] ELSE IF IsInf(a) THEN PInf ELSE a

\* ComputeResidual.hpp lines 86-92: the largest |v1v[i] - v2v[i]| over the
\* first n elements, starting from 0.0
RECURSIVE ResidualLoop(_, _, _, _, _)
ResidualLoop(n, v1v, v2v, i, local_residual) ==
    IF ~(i < n) THEN local_residual
    ELSE LET diff == FAbs(FAdd(v1v[i + 1], FNeg(v2v[i + 1])))
         IN  ResidualLoop(n, v1v, v2v, i + 1,
                          IF FGreater(diff, local_residual) THEN diff ELSE local_residual)

\* a kernel that leaves out the first element
ComputeResidualKernelFromSecond(n, v1v, v2v) == ResidualLoop(n, v1v, v2v, 1, Zero)

\* lines 77-95
ComputeResidualKernel(n, v1v, v2v) == ResidualLoop(n, v1v, v2v, 0, Zero)

NullPtr == [null |-> TRUE]
PtrTo(values) == [null |-> FALSE, at |-> values]

\* LegionStuff.hpp lines 238-253 for one dimension, offsets counted in
\* elements: the offset is the size of one element
offsetsAreDense(bounds, offset) == offset = 1

\* what raw_rect_ptr can hand back for a rectangle of a region: a pointer
\* or none, the rectangle it covers, and the offset between elements
RawRectPtrs(region) ==
    {[ptr |-> ptr, subrect |-> subrect, inOffsets |-> off] :
        ptr \in {NullPtr, PtrTo(region.values)},
        subrect \in {region.bounds, Rect(region.bounds.lo, region.bounds.hi - 1)},
        off \in {1, 2}}

\* LegionItems.hpp lines 439-469: the Item of a physical region
Item(region, raw) ==
    LET subGridBounds == region.bounds
        sane == /\ raw.ptr # NullPtr
                /\ raw.subrect = subGridBounds
                /\ offsetsAreDense(subGridBounds, raw.inOffsets)
    IN  [mLength |-> Cardinality(Points(subGridBounds)),
         mData |-> IF ~sane THEN NullPtr ELSE raw.ptr,
         raw |-> raw, bounds |-> subGridBounds]

NoItem == [mLength |-> 0, mData |-> NullPtr]

\* the regions of a task
TaskRegions ==
    {<<[bounds |-> Rect(0, MaxN - 1), values |-> v1],
       [bounds |-> Rect(0, MaxN - 1), values |-> v2]>> :
        v1 \in [1..MaxN -> {Rat(-2, 1), One}], v2 \in {[i \in 1..MaxN |-> Zero]}}

\* what a read through a null pointer can leave in local_residual when it
\* does not end the run
Garbage == {Zero, PInf}

exceptItem == <<cgVars, symgsVars, partVars, reduceVars, futureVars, multiVars>>

ItemInit ==
    /\ \E n \in 0..MaxN, regions \in TaskRegions :
          rtask = [pc |-> "v1", n |-> n, regions |-> regions, v1 |-> NoItem, v2 |-> NoItem,
                   local_residual |-> Zero, kernels |-> 0, result |-> NoFuture]
    /\ CGIdle /\ SymgsIdle /\ PartIdle /\ ReduceIdle /\ FutureIdle /\ MultiIdle

\* ComputeResidual.hpp line 153: Array<floatType> v1(regions[0], ctx, lrt)
Task_ArrayV1 ==
    /\ rtask.pc = "v1"
    /\ \E raw \in RawRectPtrs(rtask.regions[1]) :
          rtask' = [rtask EXCEPT !.pc = "v2", !.v1 = Item(rtask.regions[1], raw)]
    /\ UNCHANGED exceptItem

\* line 154: Array<floatType> v2(regions[1], ctx, lrt)
Task_ArrayV2 ==
    /\ rtask.pc = "v2"
    /\ \E raw \in RawRectPtrs(rtask.regions[2]) :
          rtask' = [rtask EXCEPT !.pc = "kernel", !.v2 = Item(rtask.regions[2], raw)]
    /\ UNCHANGED exceptItem

\* lines 156-157: the kernel on v1.data() and v2.data(); reading an element
\* through a null pointer is undefined
Task_Kernel ==
    /\ rtask.pc = "kernel"
    /\ IF rtask.n > 0 /\ (rtask.v1.mData = NullPtr \/ rtask.v2.mData = NullPtr)
       THEN \/ rtask' = [rtask EXCEPT !.pc = "crashed", !.kernels = @ + 1]
            \/ \E g \in Garbage :
                  rtask' = [rtask EXCEPT !.pc = "return", !.kernels = @ + 1,
                                         !.local_residual = g]
       ELSE rtask' = [rtask EXCEPT !.pc = "return", !.kernels = @ + 1,
                         !.local_residual =
                             IF rtask.n = 0 THEN Zero
                             ELSE ComputeResidualKernel(rtask.n, rtask.v1.mData.at,
                                                        rtask.v2.mData.at)]
    /\ UNCHANGED exceptItem

\* line 159: return local_residual
Task_Return ==
    /\ rtask.pc = "return"
    /\ rtask' = [rtask EXCEPT !.pc = "returned", !.result = rtask.local_residual]
    /\ UNCHANGED exceptItem

ItemNext == Task_ArrayV1 \/ Task_ArrayV2 \/ Task_Kernel \/ Task_Return

ItemSpec == ItemInit /\ [][ItemNext]_vars

(***************************************************************************)
(* Properties of Items.                                                    *)
(***************************************************************************)
\* the mapping of a constructed Item failed: no pointer, another rectangle
\* than the one asked for, or offsets that are not dense
MappingFailed(item) ==
    /\ item # NoItem
    /\ \/ item.raw.ptr = NullPtr
       \/ item.raw.subrect # item.bounds
       \/ item.raw.inOffsets # 1

\* C16 as stated: once the Item of one of its arrays is constructed from a
\* failed mapping, the run is aborted there, and no kernel runs on the array.
C16_MappingFailureAborts ==
    rtask.pc # "idle" /\ (MappingFailed(rtask.v1) \/ MappingFailed(rtask.v2)) =>
        rtask.pc = "aborted" /\ rtask.kernels = 0

\* what the code does do: the Item of a failed mapping has a null data
\* pointer and nothing else happens
Item_FailedMappingIsNull ==
    rtask.pc # "idle" =>
        /\ MappingFailed(rtask.v1) => rtask.v1.mData = NullPtr /\ rtask.pc # "aborted"
        /\ MappingFailed(rtask.v2) => rtask.v2.mData = NullPtr /\ rtask.pc # "aborted"
        /\ rtask.pc \in {"return", "returned", "crashed"} => rtask.kernels = 1

(***************************************************************************)
(* Reductions.  shards are the partitions of an SPMD run, each with its    *)
(* local arrays: the nrow elements it owns followed by its ghost slots.    *)
(* Every shard computes a local scalar and hands it to the collective      *)
(* coll, which combines the scalars in the order they arrive; a shard      *)
(* reads the result once every shard has arrived.                          *)
(***************************************************************************)
\* the length of the global vectors
RLen == 4

\* the numbers of partitions that divide the global vectors evenly
PartCounts == {P \in 1..RLen : RLen % P = 0}

\* what the ghost slots of the two arrays hold
GhostFill == <<Rat(5, 1), Rat(-3, 1)>>

\* the local array of shard c of P: its nrow owned elements of the global
\* vector v, then ghosts slots
LocalArray(v, P, c, ghosts, fill) ==
    LET localRows == RLen \div P
    IN  [i \in 1..(localRows + ghosts) |-> IF i <= localRows THEN v[c * localRows + i] ELSE fill]

\* the global vectors
GlobalV1 == [1..RLen -> {Rat(-2, 1), One}]
GlobalV2 == {[i \in 1..RLen |-> Zero], [i \in 1..RLen |-> Rat(i % 2, 1)]}

\* the combine of a collective: sum for dot products, max for residuals
Combine(op, acc, v) ==
    IF acc = NoFuture THEN v
    ELSE IF op = "sum" THEN FAdd(acc, v)
    ELSE IF FGreater(v, acc) THEN v ELSE acc

\* a dot product over every slot of the local arrays
DotProductOverColumns(sh) == ComputeDotProduct(Len(sh.v1), sh.v1, sh.v2)

\* CG.hpp lines 134 and 164: ComputeDotProduct(nrow, r, r, ...) with
\* nrow = localNumberOfRows
DotProductOverRows(sh) == ComputeDotProduct(sh.n, sh.v1, sh.v2)

exceptReduce == <<cgVars, symgsVars, partVars, itemVars, futureVars, multiVars>>

ReduceInit ==
    /\ \E P \in PartCounts, ghosts \in 0..1, op \in {"sum", "max"},
          v1 \in GlobalV1, v2 \in GlobalV2 :
          /\ shards = [c \in 0..(P - 1) |->
                         [pc |-> "kernel", n |-> RLen \div P,
                          v1 |-> LocalArray(v1, P, c, ghosts, GhostFill[1]),
                          v2 |-> LocalArray(v2, P, c, ghosts, GhostFill[2]),
                          local |-> Zero, result |-> NoFuture]]
          /\ coll = [pc |-> "open", op |-> op, acc |-> NoFuture, arrived |-> {},
                     first |-> -1, v1 |-> v1, v2 |-> v2, ghosts |-> ghosts]
    /\ CGIdle /\ SymgsIdle /\ PartIdle /\ ItemIdle /\ FutureIdle /\ MultiIdle

\* ComputeResidual.hpp lines 126-128: the local residual of a shard
Shard_ResidualKernel ==
    /\ coll.pc = "open" /\ coll.op = "max"
    /\ \E c \in DOMAIN shards :
          /\ shards[c].pc = "kernel"
          /\ shards' = [shards EXCEPT ![c].pc = "reduce",
                           ![c].local = ComputeResidualKernel(shards[c].n, shards[c].v1,
                                                              shards[c].v2)]
    /\ UNCHANGED <<coll, exceptReduce>>

\* CG.hpp lines 163-165: the local partial sum of a shard
Shard_DotProduct ==
    /\ coll.pc = "open" /\ coll.op = "sum"
    /\ \E c \in DOMAIN shards :
          /\ shards[c].pc = "kernel"
          /\ shards' = [shards EXCEPT ![c].pc = "reduce",
                           ![c].local = DotProductOverRows(shards[c])]
    /\ UNCHANGED <<coll, exceptReduce>>

\* ComputeResidual.hpp lines 131-135: the local scalar of a shard arrives at
\* the collective
Coll_Arrive ==
    /\ coll.pc = "open"
    /\ \E c \in DOMAIN shards :
          /\ shards[c].pc = "reduce"
          /\ coll' = [coll EXCEPT !.acc = Combine(coll.op, @, shards[c].local),
                                  !.arrived = @ \cup {c},
                                  !.first = IF @ = -1 THEN c ELSE @]
          /\ shards' = [shards EXCEPT ![c].pc = "wait"]
    /\ UNCHANGED exceptReduce

\* ComputeResidual.hpp line 136: get_result, once all have arrived
Shard_GetResult ==
    /\ coll.pc = "open"
    /\ coll.arrived = DOMAIN shards
    /\ \E c \in DOMAIN shards :
          /\ shards[c].pc = "wait"
          /\ shards' = [shards EXCEPT ![c].pc = "done", ![c].result = coll.acc]
    /\ UNCHANGED <<coll, exceptReduce>>

ReduceNext == Shard_ResidualKernel \/ Shard_DotProduct \/ Coll_Arrive \/ Shard_GetResult

ReduceSpec == ReduceInit /\ [][ReduceNext]_vars

(***************************************************************************)
(* Properties of the reductions.                                           *)
(***************************************************************************)
\* the largest of |v1[i] - v2[i]| over the global vectors
SerialResidual ==
    LET diffs == {FAbs(FAdd(coll.v1[i], FNeg(coll.v2[i]))) : i \in 1..RLen}
    IN  CHOOSE m \in diffs : \A d \in diffs : ~FGreater(d, m)

\* C17: once every partition has contributed, the max-combine of the local
\* residuals is the largest |v1[i] - v2[i]| over the whole global vector,
\* whatever the number of partitions and the order of their arrival, and
\* every partition reads this same value.
C17_ResidualIsGlobalMax ==
    coll.pc = "open" /\ coll.op = "max" =>
        /\ coll.arrived = DOMAIN shards => coll.acc = SerialResidual
        /\ \A c \in DOMAIN shards :
              shards[c].pc = "done" => shards[c].result = SerialResidual

\* all of several partitions have read the residual; the largest difference
\* is in the partition that arrived last of two, or not in the first
C17_Witness ==
    /\ coll.pc = "open" /\ coll.op = "max"
    /\ Cardinality(DOMAIN shards) > 1
    /\ \A c \in DOMAIN shards : shards[c].pc = "done"
    /\ coll.first # 0
    /\ shards[coll.first].local # SerialResidual
    /\ \E c \in DOMAIN shards : shards[c].local # shards[0].local

\* the sum of x[i] * y[i] over the global vectors
SerialDotProduct == FSum([i \in 1..RLen |-> FMul(coll.v1[i], coll.v2[i])])

MaxReads == 3

\* the result of a dot product, delivered by its reduction
Deferred(v) ==
    [op |-> "none", f1 |-> "none", f2 |-> "none", produced |-> v,
     ready |-> FALSE, value |-> NoFuture]

\* the Future of ComputeFuture(&f1, op, &f2, ...)
Composed(f1, op, f2) ==
    [op |-> op, f1 |-> f1, f2 |-> f2, produced |-> NoFuture,
     ready |-> FALSE, value |-> NoFuture]

\* an iteration whose alpha is made of the rtz of the iteration before
CGFuturesAlphaOfOldRtz(rr, oldrtz, rtz, pAp) ==
    [normrFuture  |-> Deferred(rr),
     oldrtzFuture |-> Deferred(oldrtz),
     rtzFuture    |-> Deferred(rtz),
     pApFuture    |-> Deferred(pAp),
     beta         |-> Composed("rtzFuture", "FMO_DIV", "oldrtzFuture"),
     alpha        |-> Composed("oldrtzFuture", "FMO_DIV", "pApFuture"),
     normr        |-> Composed("normrFuture", "FMO_SQRT", "none")]

\* CG.hpp lines 197-235: the Futures of an iteration k > 1
CGFutures(rr, oldrtz, rtz, pAp) ==
    [normrFuture  |-> Deferred(rr),
     oldrtzFuture |-> Deferred(oldrtz),
     rtzFuture    |-> Deferred(rtz),
     pApFuture    |-> Deferred(pAp),
     beta         |-> Composed("rtzFuture", "FMO_DIV", "oldrtzFuture"),
     alpha        |-> Composed("rtzFuture", "FMO_DIV", "pApFuture"),
     normr        |-> Composed("normrFuture", "FMO_SQRT", "none")]

FutureNames ==
    {"normrFuture", "oldrtzFuture", "rtzFuture", "pApFuture", "beta", "alpha", "normr"}

\* get_result returns the value of a ready Future and leaves every Future
\* as it is
get_result(fs, f) == [value |-> fs[f].value, futures |-> fs]

\* the operands of a composed Future are ready
OperandsReady(fs, f) ==
    /\ fs[fs[f].f1].ready
    /\ fs[f].f2 # "none" => fs[fs[f].f2].ready

exceptFuture == <<cgVars, symgsVars, partVars, itemVars, reduceVars, multiVars>>

FutureInit ==
    /\ \E rr \in {Rat(4, 1), Zero}, oldrtz \in {Rat(3, 1), Zero},
          rtz \in {Rat(6, 1), One}, pAp \in {Rat(3, 1), Rat(-2, 1)} :
          futures = CGFutures(rr, oldrtz, rtz, pAp)
    /\ got = <<>>
    /\ CGIdle /\ SymgsIdle /\ PartIdle /\ ItemIdle /\ ReduceIdle /\ MultiIdle

\* the reduction of a dot product delivers its result
Fut_Complete ==
    /\ \E f \in FutureNames :
          /\ futures[f].op = "none" /\ ~futures[f].ready
          /\ futures' = [futures EXCEPT ![f].ready = TRUE, ![f].value = futures[f].produced]
    /\ UNCHANGED <<got, exceptFuture>>

\* ComputeFuture reads its operands once they are ready and delivers the
\* result of the operation
Fut_ComputeFuture ==
    /\ \E f \in FutureNames :
          /\ futures[f].op # "none" /\ ~futures[f].ready
          /\ OperandsReady(futures, f)
          /\ LET r1 == get_result(futures, futures[f].f1)
                 r2 == IF futures[f].f2 = "none" THEN [value |-> NoFuture, futures |-> r1.futures]
                       ELSE get_result(r1.futures, futures[f].f2)
             IN  futures' = [r2.futures EXCEPT
                                ![f].ready = TRUE,
                                ![f].value = ComputeFuture(r1.value, futures[f].op, r2.value)]
    /\ UNCHANGED <<got, exceptFuture>>

\* get_result blocks until the Future is ready, then returns its value
Fut_GetResult ==
    /\ Len(got) < MaxReads
    /\ \E f \in FutureNames :
          /\ futures[f].ready
          /\ LET res == get_result(futures, f)
             IN  /\ got' = Append(got, [f |-> f, value |-> res.value])
                 /\ futures' = res.futures
    /\ UNCHANGED exceptFuture

FutureNext == Fut_Complete \/ Fut_ComputeFuture \/ Fut_GetResult

FutureSpec == FutureInit /\ [][FutureNext]_vars

(***************************************************************************)
(* Properties of deferred scalars.                                         *)
(***************************************************************************)
\* what the dot product behind a Future delivers
Produced(f) == futures[f].produced

RECURSIVE LensBefore(_, _)
LensBefore(partLens, c) ==
    IF c = 0 THEN 0 ELSE LensBefore(partLens, c - 1) + partLens[c]

\* partition(partLens) has coloured all its parts
LensColoured == la.pc \notin {"idle", "entry"} /\ la.overload = "partLens" /\ la.color = la.nParts

\* C21: once partition(partLens) has coloured its parts, with every length
\* >= 1 colour c covers exactly [sum of partLens[0..c-1], sum of
\* partLens[0..c] - 1], a range with lo <= hi of partLens[c] elements, the
\* first starting at 0 and each next one right after the one before; a
\* zero-length entry gives a range whose upper bound is one below its lower
\* bound, -1 for the first colour.
C21_LensCumulativeRanges ==
    LensColoured =>
        LET lens == la.partLens
            col  == la.disjointColoring
        IN  /\ (\A c \in 1..Len(lens) : lens[c] >= 1) =>
                  /\ DOMAIN col = 0..(Len(lens) - 1)
                  /\ \A c \in 0..(Len(lens) - 1) :
                        /\ col[c].lo = LensBefore(lens, c)
                        /\ col[c].hi = LensBefore(lens, c + 1) - 1
                        /\ col[c].lo <= col[c].hi
                        /\ Cardinality(Points(col[c])) = lens[c + 1]
                        /\ c > 0 => col[c].lo = col[c - 1].hi + 1
                  /\ col[0].lo = 0
                  /\ la.pc = "done" => la.indexPartition.coloring = col
            /\ \A c \in 0..(Len(lens) - 1) :
                  lens[c + 1] = 0 =>
                      /\ col[c].hi < col[c].lo
                      /\ c = 0 => col[c].hi = -1

\* partition(partLens) has returned with three parts of different lengths
C21_Witness ==
    /\ la.pc = "done" /\ la.overload = "partLens"
    /\ la.partLens = <<1, 2, 1>>
    /\ la.disjointColoring[1] = Rect(1, 2)

\* what a call has made: the colour domain, the colouring of the index
\* partition and the launch domain
Made(s) ==
    [colorDomain |-> s.indexPartition.colorDomain, coloring |-> s.indexPartition.coloring,
     launchDomain |-> s.launchDomain]

\* C22: when partition(nParts) has returned, partition(partLens) with nParts
\* entries L/nParts on the same array returns with the same colouring and
\* the same launch domain; and when partition(partLens) has returned from
\* equal entries that add up to L, so does partition(nParts) with their
\* number.
C22_OverloadsAgree ==
    la.pc = "done" =>
        LET L == la.mLength
            n == la.nParts
        IN  /\ la.overload = "nParts" =>
                  LET other == PartitionRun(PartitionEntry(L, la.entry, "partLens", 0,
                                                           [c \in 1..n |-> L \div n]))
                  IN  other.pc = "done" /\ Made(other) = Made(la)
            /\ la.overload = "partLens" /\ (\A c \in 1..n : la.partLens[c] * n = L) =>
                  LET other == PartitionRun(PartitionEntry(L, la.entry, "nParts", n, <<>>))
                  IN  other.pc = "done" /\ Made(other) = Made(la)

\* partition(partLens) has returned from two equal lengths on an array of
\* four elements
C22_Witness ==
    /\ la.pc = "done" /\ la.overload = "partLens"
    /\ la.mLength = 4 /\ la.partLens = <<2, 2>>
    /\ Made(la) = Made(PartitionRun(PartitionEntry(4, la.entry, "nParts", 2, <<>>)))

(***************************************************************************)
(* Further properties of symgs.                                            *)
(***************************************************************************)
\* x after the tasks of the points in the given order have run one after
\* the other on the regions m
RECURSIVE SweepInOrder(_, _, _, _)
SweepInOrder(m, parts, sweep, points) ==
    IF points = <<>> THEN m.x
    ELSE SweepInOrder(symgsTask(m, parts, Head(points), sweep), parts, sweep, Tail(points))

\* the positions in ran of the tasks of launch l
RanOf(l) == {q \in 1..Len(ran) : ran[q].launch = l}

\* C23 as stated: once all tasks of a sweep have run, x is what the tasks
\* leave when they run in the order of their partitions, whatever order
\* they did run in: every serial order yields the same x.
C23_OrderWithinSweepIrrelevant ==
    call.pc # "idle" =>
        \A l \in 0..1 :
            Cardinality(RanOf(l)) = call.volA =>
                LET first  == CHOOSE q \in RanOf(l) : \A p \in RanOf(l) : q <= p
                    last   == CHOOSE q \in RanOf(l) : \A p \in RanOf(l) : q >= p
                    sweep  == IF ran[first].sweep = "forward" THEN 1 ELSE 0
                    before == [mem EXCEPT !.x = ran[first].before]
                IN  XAfter(last) =
                        SweepInOrder(before, call.volA, sweep, [c \in 1..call.volA |-> c - 1])

(***************************************************************************)
(* Further properties of CG.                                               *)
(***************************************************************************)
\* the positions of Init, in the order the call passes them, and the rank
\* of a position: its place in Init, or 6 once the loop is reached
InitPositions == <<"copy", "spmv0", "waxpby0", "dot0", "norm0">>

InitRank(pc) ==
    IF \E i \in 1..5 : InitPositions[i] = pc
    THEN CHOOSE i \in 1..5 : InitPositions[i] = pc
    ELSE 6

\* the positions of an iteration after its update of x
AfterUpdate == {"dot", "norm", "end"}

\* what a step of the call from frame s to frame t may change of the
\* arguments
InputsKept(s, t) ==
    /\ t.A = s.A /\ t.b = s.b
    /\ t.maxIter = s.maxIter /\ t.tolerance = s.tolerance
    \* Init is passed once, position by position, and normr0 is assigned in
    \* its last step only
    /\ InitRank(s.pc) < 6 => InitRank(t.pc) = InitRank(s.pc) + 1
    /\ InitRank(s.pc) = 6 => InitRank(t.pc) = 6
    /\ IF s.pc = "norm0"
       THEN t.normr0 = ComputeFuture(s.normrFuture, "FMO_SQRT", NoFuture)
       ELSE t.normr0 = s.normr0
    \* x is written by the update only, which an iteration passes once: the
    \* positions after the update are left by completing the iteration
    /\ IF s.pc = "update"
       THEN /\ t.x = [i \in 1..nrow |-> FAdd(s.x[i], FMul(s.alpha, s.p[i]))]
            /\ t.pc = "dot"
            /\ s.k = s.iters + 1
       ELSE t.x = s.x
    /\ t.pc \in AfterUpdate /\ s.pc \notin AfterUpdate => s.pc = "update"
    /\ s.pc \in AfterUpdate /\ t.pc \notin AfterUpdate =>
          s.pc = "end" /\ t.iters = s.iters + 1 /\ t.pc = "test"
    /\ ~(s.pc \in AfterUpdate /\ t.pc \notin AfterUpdate) => t.iters = s.iters

Times_MeasuredSlotsAccumulate ==
    cg.pc = "done" =>
        /\ cg.times[0] = cg.entry.times[0] + (cg.clock - cg.t_begin)
        /\ cg.times[1] = cg.entry.times[1] + cg.t1
        /\ cg.times[2] = cg.entry.times[2] + cg.t2
        /\ cg.times[3] = cg.entry.times[3] + cg.t3
        /\ cg.times[4] = cg.entry.times[4] + cg.t4
        /\ cg.times[5] = cg.entry.times[5] + cg.t5
        /\ \A i \in 0..6 : cg.times[i] >= cg.entry.times[i]
        /\ cg.halo <= cg.t3

\* C25 as stated: on return every slot of times holds its value on entry
\* plus the time of its phase in this call; no slot has decreased, slot 0
\* has grown by the duration of the call and slot 6 by the time the SPMV
\* operations of the call spent exchanging halos.
C25_TimesAccumulate ==
    cg.pc = "done" =>
        /\ Times_MeasuredSlotsAccumulate
        /\ cg.times[6] = cg.entry.times[6] + cg.halo

(***************************************************************************)
(* Further properties of ComputeResidual.                                  *)
(***************************************************************************)
\* ComputeResidual.hpp lines 126-128, the build without LGNCG_TASKING: the
\* local residual is computed by the kernel on the caller's own arrays,
\* whose data are the contents of the two regions
InlineLocalResidual(n, regions) ==
    ComputeResidualKernel(n, regions[1].values, regions[2].values)

\* the task has left its kernel
KernelLeft == rtask.pc \in {"return", "returned", "crashed"}

\* C26 as stated: the task launched by the build with LGNCG_TASKING
\* completes, and the local residual it computes and returns is the one the
\* inline kernel of the other build computes for the same n, v1 and v2.
C26_TaskingMatchesInline ==
    KernelLeft =>
        /\ rtask.pc # "crashed"
        /\ rtask.local_residual = InlineLocalResidual(rtask.n, rtask.regions)
        /\ rtask.pc = "returned" =>
              rtask.result = InlineLocalResidual(rtask.n, rtask.regions)

\* the two builds do agree whenever both regions of the task were mapped
Residual_BuildsAgreeWhenMapped ==
    KernelLeft /\ ~MappingFailed(rtask.v1) /\ ~MappingFailed(rtask.v2) =>
        /\ rtask.pc # "crashed"
        /\ rtask.local_residual = InlineLocalResidual(rtask.n, rtask.regions)
        /\ rtask.pc = "returned" =>
              rtask.result = InlineLocalResidual(rtask.n, rtask.regions)

(***************************************************************************)
(* ComputeResidualKernel step by step.  A call is a frame in rtask: the    *)
(* arguments, the locals, the position pc and, as history, the indices     *)
(* read and the arguments on entry.                                        *)
(***************************************************************************)
\* a kernel that takes the value residual holds on entry as its first
\* maximum
KernelEntryFromResidual(n, v1v, v2v, residual) ==
    [pc |-> "loop", n |-> n, v1v |-> v1v, v2v |-> v2v, residual |-> residual,
     local_residual |-> residual, i |-> 0, rc |-> -1, reads |-> {},
     entry |-> [v1v |-> v1v, v2v |-> v2v, residual |-> residual]]

\* ComputeResidual.hpp lines 77-86: the frame of a call when the loop is
\* reached: local_residual = 0.0, i = 0
KernelEntry(n, v1v, v2v, residual) ==
    [pc |-> "loop", n |-> n, v1v |-> v1v, v2v |-> v2v, residual |-> residual,
     local_residual |-> Zero, i |-> 0, rc |-> -1, reads |-> {},
     entry |-> [v1v |-> v1v, v2v |-> v2v, residual |-> residual]]

\* lines 86-89: one pass of the loop body, for i < args.n
KernelIteration(s) ==
    LET diff == FAbs(FAdd(s.v1v[s.i + 1], FNeg(s.v2v[s.i + 1])))
    IN  [s EXCEPT !.local_residual = IF FGreater(diff, s.local_residual) THEN diff ELSE @,
                  !.reads = @ \cup {s.i},
                  !.i = s.i + 1]

\* lines 90-92: residual = local_residual; return 0
KernelExit(s) == [s EXCEPT !.residual = s.local_residual, !.rc = 0, !.pc = "done"]

\* the values of the elements of the arrays, and what residual can hold on
\* entry
KernelValues1 == {Rat(-2, 1), One, NaN, PInf}
KernelValues2 == {Zero, PInf}
KernelResiduals == {Zero, Rat(-1, 1), Rat(7, 1), NaN}

KernelInit ==
    /\ \E n \in 0..MaxN, v1v \in [1..MaxN -> KernelValues1],
          v2v \in [1..MaxN -> KernelValues2], residual \in KernelResiduals :
          rtask = KernelEntry(n, v1v, v2v, residual)
    /\ CGIdle /\ SymgsIdle /\ PartIdle /\ ReduceIdle /\ FutureIdle /\ MultiIdle

Kernel_Iteration ==
    /\ rtask.pc = "loop"
    /\ rtask.i < rtask.n
    /\ rtask' = KernelIteration(rtask)
    /\ UNCHANGED exceptItem

Kernel_Exit ==
    /\ rtask.pc = "loop"
    /\ ~(rtask.i < rtask.n)
    /\ rtask' = KernelExit(rtask)
    /\ UNCHANGED exceptItem

KernelNext == Kernel_Iteration \/ Kernel_Exit

KernelSpec == KernelInit /\ [][KernelNext]_vars

\* C27: the kernel never writes v1 or v2 and reads only the indices 0..n-1;
\* it returns 0 and sets residual to a value >= 0, which is exactly 0 for
\* n = 0 and does not depend on the value residual held on entry.
C27_KernelFrame ==
    /\ rtask.v1v = rtask.entry.v1v /\ rtask.v2v = rtask.entry.v2v
    /\ rtask.reads \subseteq 0..(rtask.n - 1)
    /\ rtask.pc = "loop" => rtask.residual = rtask.entry.residual
    /\ rtask.pc = "done" =>
          /\ rtask.rc = 0
          /\ rtask.reads = 0..(rtask.n - 1)
          /\ rtask.residual.k \in {"fin", "pinf"}
          /\ rtask.residual.k = "fin" => rtask.residual.n >= 0
          /\ rtask.n = 0 => rtask.residual = Zero
          /\ rtask.residual = ComputeResidualKernel(rtask.n, rtask.v1v, rtask.v2v)

\* the kernel has returned a positive residual for two elements, one of
\* which gave a difference that is not a number, although residual held a
\* larger value on entry
C27_Witness ==
    /\ rtask.pc = "done"
    /\ rtask.n = 2
    /\ rtask.entry.residual = Rat(7, 1)
    /\ rtask.v1v = <<NaN, Rat(-2, 1)>>
    /\ rtask.residual = Rat(2, 1)

(***************************************************************************)
(* The frame of a symgs call.                                              *)
(***************************************************************************)
\* what a step of the call and of its tasks keeps, and what the task that
\* ran in the step divided by
SymgsKept ==
    call.pc # "idle" =>
        /\ mem'.r = mem.r
        /\ mem'.vals = mem.vals /\ mem'.diag = mem.diag
        /\ mem'.mIdxs = mem.mIdxs /\ mem'.nzir = mem.nzir
        /\ ran' # ran =>
              LET t == ran'[Len(ran')]
              IN  /\ {e.row : e \in t.divided} = OwnedRows(t.point)
                  /\ \A e \in t.divided : e.by = mem.diag[e.row]
                  /\ (\A i \in 0..(SNRows - 1) : mem.diag[i] # Zero) =>
                        /\ \A e \in t.divided : e.by # Zero
                        /\ \A i \in 0..(SNRows - 1) : IsFin(mem'.x[i])

\* C28: a symgs call changes x only: r, vals, diag, mIdxs and nzir are left
\* as they are by every step of both sweeps; every division of a sweep is
\* by the cached diagonal of the row, so with nonzero diagonal entries no
\* step divides by zero.
C28_OnlyXModified == [][SymgsKept]_vars

\* both sweeps have run on two partitions and changed x
C28_Witness ==
    /\ call.pc = "returned"
    /\ call.volA = 2
    /\ Len(ran) = 4 /\ pending = {}
    /\ mem.x # ran[1].before
    /\ \A q \in 1..4 : Cardinality(ran[q].divided) = MaxLocalRows

(***************************************************************************)
(* LogicalMultiBase (LegionItems.hpp).  multi is an object holding the     *)
(* list mLogicalItems and the call of intent or deallocate in progress on  *)
(* it: the operation op, the position k of its loop, the launcher intent   *)
(* adds to and, as history, the items whose deallocate was called, the     *)
(* number of calls so far and the list and the launcher on entry.          *)
(***************************************************************************)
\* the longest item list and the most calls on one object
MaxItems == 3
MaxCalls == 2

\* the item with the given identity: its field, its region and the
\* partition of that region
LogicalItemOf(i) ==
    [id |-> i, fid |-> 0, logicalRegion |-> [tree |-> i],
     logicalPartition |-> [tree |-> i, colors |-> 2]]

\* the lists of distinct items
ItemLists ==
    {[j \in 1..Len(ids) |-> LogicalItemOf(ids[j])] :
        ids \in {q \in UNION {[1..n -> 1..MaxItems] : n \in 0..MaxItems} :
                    \A a, b \in 1..Len(q) : q[a] = q[b] => a = b}}

\* lines 83-85: the subregion of a partition for a colour
get_logical_subregion_by_color(logicalPartition, shard) ==
    [partition |-> logicalPartition, color |-> shard]

\* lines 87-92: the requirement for a region with its parent, without fields
RegionRequirement(lsr, privMode, cohProp, parent) ==
    [region |-> lsr, privilege |-> privMode, coherence |-> cohProp, parent |-> parent,
     fields |-> {}]

\* lines 75-95, LogicalItemBase::intent: the launcher with the requirement
\* for the shard's subregion of the item added
ItemIntent(item, privMode, cohProp, shard, launcher) ==
    LET lsr == get_logical_subregion_by_color(item.logicalPartition, shard)
    IN  Append(launcher,
               [RegionRequirement(lsr, privMode, cohProp, item.logicalRegion)
                    EXCEPT !.fields = @ \cup {item.fid}])

\* a loop that visits the list from its back
NextItemFromBack(s) == s.mLogicalItems[Len(s.mLogicalItems) - s.k]

\* lines 188 and 205: the item the range-based loop visits after k others
NextItem(s) == s.mLogicalItems[s.k + 1]

\* the requirements a launcher can hold when it is handed to intent
LaunchersOnEntry ==
    {<<>>, <<RegionRequirement([partition |-> [tree |-> 0, colors |-> 2], color |-> 0],
                               "READ_ONLY", "EXCLUSIVE", [tree |-> 0])>>}

\* lines 196-204: a call of intent on the object s
IntentEntry(s, privMode, cohProp, shard, launcher) ==
    [s EXCEPT !.pc = "intent", !.op = "intent", !.k = 0, !.launcher = launcher,
              !.args = [privMode |-> privMode, cohProp |-> cohProp, shard |-> shard],
              !.calls = @ + 1, !.entry = [items |-> s.mLogicalItems, launcher |-> launcher]]

\* lines 205-207: one pass of the loop of intent
IntentItem(s) ==
    [s EXCEPT !.launcher = ItemIntent(NextItem(s), s.args.privMode, s.args.cohProp,
                                      s.args.shard, s.launcher),
              !.k = @ + 1]

\* lines 183-187: a call of deallocate on the object s
DeallocateEntry(s) ==
    [s EXCEPT !.pc = "deallocate", !.op = "deallocate", !.k = 0, !.deallocated = <<>>,
              !.calls = @ + 1, !.entry = [items |-> s.mLogicalItems, launcher |-> <<>>]]

\* lines 188-190: one pass of the loop of deallocate
DeallocateItem(s) ==
    [s EXCEPT !.deallocated = Append(@, NextItem(s).id), !.k = @ + 1]

exceptMulti == <<cgVars, symgsVars, partVars, itemVars, reduceVars, futureVars>>

MultiInit ==
    /\ \E items \in ItemLists :
          multi = [pc |-> "ready", op |-> "none", mLogicalItems |-> items, k |-> 0,
                   launcher |-> <<>>, args |-> <<>>, deallocated |-> <<>>, calls |-> 0,
                   entry |-> [items |-> items, launcher |-> <<>>]]
    /\ CGIdle /\ SymgsIdle /\ PartIdle /\ ItemIdle /\ ReduceIdle /\ FutureIdle

Multi_Intent ==
    /\ multi.pc = "ready"
    /\ multi.calls < MaxCalls
    /\ \E privMode \in {"READ_ONLY", "READ_WRITE"}, cohProp \in {"EXCLUSIVE"},
          shard \in 0..1, launcher \in LaunchersOnEntry :
          multi' = IntentEntry(multi, privMode, cohProp, shard, launcher)
    /\ UNCHANGED exceptMulti

Multi_IntentItem ==
    /\ multi.pc = "intent"
    /\ multi.k < Len(multi.mLogicalItems)
    /\ multi' = IntentItem(multi)
    /\ UNCHANGED exceptMulti

Multi_Deallocate ==
    /\ multi.pc = "ready"
    /\ multi.calls < MaxCalls
    /\ multi' = DeallocateEntry(multi)
    /\ UNCHANGED exceptMulti

Multi_DeallocateItem ==
    /\ multi.pc = "deallocate"
    /\ multi.k < Len(multi.mLogicalItems)
    /\ multi' = DeallocateItem(multi)
    /\ UNCHANGED exceptMulti

\* lines 191 and 208: the loop is over
Multi_Return ==
    /\ multi.pc \in {"intent", "deallocate"}
    /\ ~(multi.k < Len(multi.mLogicalItems))
    /\ multi' = [multi EXCEPT !.pc = "ready"]
    /\ UNCHANGED exceptMulti

MultiNext ==
    \/ Multi_Intent \/ Multi_IntentItem \/ Multi_Deallocate \/ Multi_DeallocateItem
    \/ Multi_Return

MultiSpec == MultiInit /\ [][MultiNext]_vars

(***************************************************************************)
(* Properties of LogicalMultiBase.                                         *)
(***************************************************************************)
\* the requirements the call of intent in progress, or the last one, has
\* added to its launcher
Added == SubSeq(multi.launcher, Len(multi.entry.launcher) + 1, Len(multi.launcher))

\* the items the call in progress has visited, all of them once it returned
Visited == IF multi.pc = "ready" THEN Len(multi.mLogicalItems) ELSE multi.k

\* C29: intent adds one region requirement for every item of the list, in
\* the order of the list, behind what the launcher held; deallocate calls
\* deallocate of every item once, in the order of the list; neither
\* operation adds, removes or reorders items.
C29_ItemsInListOrder ==
    multi.pc # "idle" =>
        /\ multi.mLogicalItems = multi.entry.items
        /\ multi.op = "intent" =>
              /\ SubSeq(multi.launcher, 1, Len(multi.entry.launcher)) = multi.entry.launcher
              /\ Len(Added) = Visited
              /\ \A j \in 1..Len(Added) :
                    LET item == multi.entry.items[j]
                    IN  /\ Added[j].parent = item.logicalRegion
                        /\ Added[j].region.partition = item.logicalPartition
                        /\ Added[j].region.color = multi.args.shard
                        /\ Added[j].privilege = multi.args.privMode
                        /\ Added[j].coherence = multi.args.cohProp
                        /\ Added[j].fields = {item.fid}
        /\ multi.op = "deallocate" =>
              /\ Len(multi.deallocated) = Visited
              /\ \A j \in 1..Len(multi.deallocated) :
                    multi.deallocated[j] = multi.entry.items[j].id

\* intent has returned after deallocate, on a list of three items that is
\* not in the order of their identities and with a launcher that held a
\* requirement already
C29_Witness ==
    /\ multi.pc = "ready"
    /\ multi.op = "intent"
    /\ multi.calls = 2
    /\ Len(multi.mLogicalItems) = 3
    /\ multi.mLogicalItems[1].id = 2 /\ multi.mLogicalItems[3].id = 1
    /\ Len(multi.launcher) = 4
    /\ Len(multi.deallocated) = 3

=============================================================================
